---- MODULE Spec2Model ----
(***************************************************************************)
(* civ6mcp: the binary save-file decoder (src/src/parser.ts), the CSV      *)
(* telemetry loaders and aggregators (src/src/index.ts, the log parser     *)
(* half, and the history parser listed in src/TOOLS.md) and the tool-call  *)
(* handler (src/src/index.ts).                                             *)
(*                                                                         *)
(* Representation.                                                         *)
(*  - A Buffer is a record [len, at]: len bytes, of which `at` lists the   *)
(*    non-zero ones by 0-based offset (every other byte is 0).  Offsets    *)
(*    are the source's offsets, so the program constants 65536, 150000 and *)
(*    200000 keep their values.                                            *)
(*  - A JavaScript string decoded from a Buffer is a sequence of code      *)
(*    points; a string read from a CSV log is a TLA+ string.               *)
(*  - A function result is a record with a `kind` field: "value", "null"   *)
(*    or "throw" (an exception leaving the function).                      *)
(***************************************************************************)
EXTENDS Integers, Sequences, FiniteSets, TLC

VARIABLES
    saveFile,      \* the .Civ6Save file on disk: [name, content] (content a Buffer)
    statsFile,     \* Player_Stats.csv: its text, or NoFile
    scoresFile,    \* Game_PlayerScores.csv: its text, or NoFile
    diplomacyFile, \* AI_Diplomacy.csv: its text, or NoFile
    logDir,        \* the other files of LOG_FILES, by key: their text, or NoFile
    gameContext,   \* the in-memory notes store of the server (index.ts:54)
    ret            \* the call being answered: [fn, ...arguments, out], or NoCall

vars == <<saveFile, statsFile, scoresFile, diplomacyFile, logDir, gameContext, ret>>

----------------------------------------------------------------------------
(* Small arithmetic helpers.                                               *)

Min(a, b) == IF a <= b THEN a ELSE b
Max(a, b) == IF a >= b THEN a ELSE b
SetMin(S) == CHOOSE x \in S : \A y \in S : x <= y
SetMax(S) == CHOOSE x \in S : \A y \in S : x >= y

\* const v = ...; F(v): v is computed once and named inside F.
Let(v, F(_)) == F(v)

Null == [kind |-> "null"]
Throw(name, message) == [kind |-> "throw", name |-> name, message |-> message]
NoFile == "<no file>"
NoCall == [fn |-> "none"]

\* LOG_FILES: the keys of the files kept in logDir.
LOG_FILES ==
    {"DIPLOMACY_MODIFIERS", "MILITARY", "COMBAT", "CITY_PRODUCTION", "CITY_BUILD", "TECH",
     "WORLD_CONGRESS", "GREAT_PEOPLE"}

\* The directory without any of these files.
NoLogs == [key \in LOG_FILES |-> NoFile]

----------------------------------------------------------------------------
(* Node's Buffer, as far as the parser uses it.                            *)

NoBytes == [i \in {} |-> 0]

\* Buffer.from([...]): the bytes of a sequence.
BufferFrom(seq) ==
    [len |-> Len(seq),
     at  |-> [i \in {j \in 0..(Len(seq) - 1) : seq[j + 1] # 0} |-> seq[i + 1]]]

\* Buffer.alloc(n): n zero bytes.
alloc(n) == [len |-> n, at |-> NoBytes]

\* buffer[i]
byteAt(b, i) == IF i \in DOMAIN b.at THEN b.at[i] ELSE 0

\* buffer.subarray(s, e), for s, e >= 0: both ends are clamped to the length.
subarray(b, s, e) ==
    LET s1 == Min(Max(s, 0), b.len)
        e1 == Min(Max(e, 0), b.len)
        kept == {o \in DOMAIN b.at : o >= s1 /\ o < e1}
    IN  [len |-> Max(e1 - s1, 0),
         at  |-> [i \in {o - s1 : o \in kept} |-> b.at[i + s1]]]

concat2(a, b) ==
    [len |-> a.len + b.len,
     at  |-> [i \in (DOMAIN a.at) \cup {o + a.len : o \in DOMAIN b.at} |->
                 IF i < a.len THEN a.at[i] ELSE b.at[i - a.len]]]

\* Buffer.concat(list)
RECURSIVE concat(_)
concat(list) ==
    IF list = << >> THEN alloc(0)
    ELSE concat2(Head(list), concat(Tail(list)))

matchesAt(b, pat, i) ==
    /\ i >= 0
    /\ i + Len(pat) <= b.len
    /\ \A k \in 1..Len(pat) : byteAt(b, i + k - 1) = pat[k]

\* buffer.indexOf(pat, from): the smallest offset >= from where pat occurs, or -1.
\* A match either covers a listed byte or lies in a run of zeros, whose first
\* possible start is `from` or the offset after a listed byte.
indexOf(b, pat, from) ==
    LET near == {o - k : o \in DOMAIN b.at, k \in 0..(Len(pat) - 1)}
        runs == {from} \cup {o + 1 : o \in DOMAIN b.at}
        hits == {c \in near \cup runs : c >= from /\ matchesAt(b, pat, c)}
    IN  IF hits = {} THEN -1 ELSE SetMin(hits)

\* readUInt32LE / readUInt16LE throw ERR_OUT_OF_RANGE unless off + n <= length.
inRange(b, off, n) == off >= 0 /\ off + n <= b.len

\* An unsigned 32-bit number is kept as its two 16-bit halves, so that every
\* value up to 2^32 - 1 is represented; u32(n) is the number n.
u32(n) == [hi |-> n \div 65536, lo |-> n % 65536]

readUInt32LE(b, off) ==
    [hi |-> byteAt(b, off + 2) + 256 * byteAt(b, off + 3),
     lo |-> byteAt(b, off) + 256 * byteAt(b, off + 1)]

readUInt16LE(b, off) == byteAt(b, off) + 256 * byteAt(b, off + 1)

\* The UTF-8 decoder of buffer.toString('utf8'): one- and two-byte sequences;
\* a byte that starts no valid sequence decodes to U+FFFD.  (Bytes E0..F4, the
\* leads of three- and four-byte sequences, are not in the inputs used.)
RECURSIVE utf8Decode(_, _, _)
utf8Decode(b, i, e) ==
    IF i >= e THEN << >>
    ELSE LET c == byteAt(b, i) IN
         IF c < 128 THEN <<c>> \o utf8Decode(b, i + 1, e)
         ELSE IF c >= 194 /\ c <= 223 /\ i + 1 < e /\ byteAt(b, i + 1) \in 128..191
              THEN <<(c - 192) * 64 + (byteAt(b, i + 1) - 128)>> \o utf8Decode(b, i + 2, e)
              ELSE <<65533>> \o utf8Decode(b, i + 1, e)

\* buffer.toString('utf8', s, e)
toStringUtf8(b, s, e) ==
    utf8Decode(b, Min(Max(s, 0), b.len), Min(Max(e, 0), b.len))

\* buffer.toString('ascii'): Node clears the high bit of every byte.
toStringAscii(b) == [i \in 1..b.len |-> byteAt(b, i - 1) % 128]

----------------------------------------------------------------------------
(* Code-point strings.                                                     *)

UpperCaseLetters == "ABCDEFGHIJKLMNOPQRSTUVWXYZ"
LowerCaseLetters == "abcdefghijklmnopqrstuvwxyz"
DecimalDigits == "0123456789"
Punctuation == " !#$%&'()*+,-./"

\* The 1-based position of the one-character string ch in s, or 0.
charIndex(s, ch) ==
    LET hits == {i \in 1..Len(s) : SubSeq(s, i, i) = ch}
    IN  IF hits = {} THEN 0 ELSE SetMin(hits)

\* The code point of a character of the source's string literals.
codeOf(ch) ==
    CASE charIndex(UpperCaseLetters, ch) > 0 -> 64 + charIndex(UpperCaseLetters, ch)
      [] charIndex(LowerCaseLetters, ch) > 0 -> 96 + charIndex(LowerCaseLetters, ch)
      [] charIndex(DecimalDigits, ch) > 0 -> 47 + charIndex(DecimalDigits, ch)
      [] charIndex(Punctuation, ch) > 0 ->
            LET i == charIndex(Punctuation, ch) IN IF i <= 2 THEN 31 + i ELSE 32 + i
      [] ch = ":" -> 58
      [] ch = "_" -> 95

\* The code points of a (printable ASCII) string literal of the source.
Codes(s) == [i \in 1..Len(s) |-> codeOf(SubSeq(s, i, i))]

toUpperCase(c) == IF c \in 97..122 THEN c - 32 ELSE c
toLowerCase(c) == IF c \in 65..90 THEN c + 32 ELSE c

startsWith(s, prefix) == Len(s) >= Len(prefix) /\ SubSeq(s, 1, Len(prefix)) = prefix

endsWith(str, tail) ==
    Len(str) >= Len(tail) /\ SubSeq(str, Len(str) - Len(tail) + 1, Len(str)) = tail

\* The first index >= from at which pat occurs in s, or 0.
seqIndexOf(s, pat, from) ==
    LET hits == {i \in from..(Len(s) - Len(pat) + 1) : SubSeq(s, i, i + Len(pat) - 1) = pat}
    IN  IF hits = {} THEN 0 ELSE SetMin(hits)

\* s.replace(pat, ''): the first occurrence of a literal pattern removed.
removeFirst(s, pat) ==
    Let(seqIndexOf(s, pat, 1), LAMBDA i :
        IF i = 0 THEN s ELSE SubSeq(s, 1, i - 1) \o SubSeq(s, i + Len(pat), Len(s)))

\* s.split(sep), sep one code point.
RECURSIVE splitSeq(_, _)
splitSeq(s, sep) ==
    Let(seqIndexOf(s, <<sep>>, 1), LAMBDA i :
        IF i = 0 THEN <<s>>
        ELSE <<SubSeq(s, 1, i - 1)>> \o splitSeq(SubSeq(s, i + 1, Len(s)), sep))

RECURSIVE joinSeq(_, _)
joinSeq(parts, sep) ==
    IF Len(parts) = 0 THEN << >>
    ELSE IF Len(parts) = 1 THEN parts[1]
    ELSE parts[1] \o <<sep>> \o joinSeq(Tail(parts), sep)

capitalize(word) ==
    IF word = << >> THEN << >>
    ELSE <<toUpperCase(word[1])>> \o [i \in 1..(Len(word) - 1) |-> toLowerCase(word[i + 1])]

\* formatEnumValue: GAMESPEED-style tokens to display text, "A_BC" -> "A Bc".
formatEnumValue(value) ==
    Let(splitSeq(value, 95), LAMBDA words :
        joinSeq([i \in 1..Len(words) |-> capitalize(words[i])], 32))

----------------------------------------------------------------------------
(* parser.ts: markers and readMarkerValue.                                 *)

COMPRESSED_DATA_END == <<0, 0, 255, 255>>
ZLIB_HEADER == <<120, 156>>
GAME_TURN == <<157, 44, 230, 189>>
GAME_SPEED == <<153, 176, 217, 5>>
MAP_SIZE == <<64, 92, 131, 11>>

JsNumber(n) == [t |-> "number", v |-> n]
JsString(s) == [t |-> "string", v |-> s]
JsBoolean(x) == [t |-> "boolean", v |-> x]

RangeError == Throw("RangeError", Codes("The value of offset is out of range"))

\* A decoder that takes the payload from offset +12 instead of +16.
readMarkerValueAt12(buffer, marker) ==
    Let(indexOf(buffer, marker, 0), LAMBDA pos :
        IF pos = -1 THEN Null
        ELSE IF ~inRange(buffer, pos + 4, 4) THEN RangeError
        ELSE Let(readUInt32LE(buffer, pos + 4), LAMBDA type :
             CASE type = u32(1) ->
                    [kind |-> "value", type |-> type,
                     data |-> JsBoolean(readUInt32LE(buffer, pos + 12) # u32(0))]
               [] type = u32(2) ->
                    [kind |-> "value", type |-> type,
                     data |-> JsNumber(readUInt32LE(buffer, pos + 12))]
               [] type = u32(5) ->
                    [kind |-> "value", type |-> type,
                     data |-> JsString(toStringUtf8(buffer, pos + 12,
                                                    pos + 12 + readUInt16LE(buffer, pos + 8) - 1))]
               [] OTHER -> Null))

readMarkerValue(buffer, marker) ==
    Let(indexOf(buffer, marker, 0), LAMBDA pos :
        IF pos = -1 THEN Null
        ELSE IF ~inRange(buffer, pos + 4, 4) THEN RangeError
        ELSE Let(readUInt32LE(buffer, pos + 4), LAMBDA type :
             CASE type = u32(1) ->
                    IF ~inRange(buffer, pos + 16, 4) THEN RangeError
                    ELSE [kind |-> "value", type |-> type,
                          data |-> JsBoolean(readUInt32LE(buffer, pos + 16) # u32(0))]
               [] type = u32(2) ->
                    IF ~inRange(buffer, pos + 16, 4) THEN RangeError
                    ELSE [kind |-> "value", type |-> type,
                          data |-> JsNumber(readUInt32LE(buffer, pos + 16))]
               [] type = u32(5) ->
                    IF ~inRange(buffer, pos + 8, 2) THEN RangeError
                    ELSE Let(readUInt16LE(buffer, pos + 8), LAMBDA strLen :
                         [kind |-> "value", type |-> type,
                          data |-> JsString(toStringUtf8(buffer, pos + 16, pos + 16 + strLen - 1))])
               [] OTHER -> Null))

----------------------------------------------------------------------------
(* zlib.unzipSync(data, {finishFlush: Z_SYNC_FLUSH}) on the zlib streams   *)
(* the model builds: a two-byte header and stored (uncompressed) deflate   *)
(* blocks.  Input that ends early is not an error under Z_SYNC_FLUSH: the  *)
(* bytes produced so far are returned.  Huffman-coded blocks (block types  *)
(* 1 and 2) are outside the modelled subset and decode as an error.        *)

ZlibError == Throw("Error", Codes("incorrect data check"))

\* Adler-32 of a buffer: a = 1 + sum of the bytes, b = sum of the running a.
adler32(b) ==
    LET offs == DOMAIN b.at
        RECURSIVE sums(_)
        sums(S) ==
            IF S = {} THEN <<1, b.len>>
            ELSE LET o == CHOOSE x \in S : TRUE
                     r == sums(S \ {o})
                 IN  <<(r[1] + b.at[o]) % 65521, (r[2] + (b.len - o) * b.at[o]) % 65521>>
        ab == sums(offs)
    IN  [hi |-> ab[2] % 65521, lo |-> ab[1]]

readUInt32BE(b, off) ==
    [hi |-> 256 * byteAt(b, off) + byteAt(b, off + 1),
     lo |-> 256 * byteAt(b, off + 2) + byteAt(b, off + 3)]

\* The blocks of stream a from offset pos on; out is the list of blocks decoded.
RECURSIVE inflateBlocks(_, _, _)
inflateBlocks(a, pos, out) ==
    IF pos >= a.len THEN [kind |-> "value", data |-> concat(out)]
    ELSE IF (byteAt(a, pos) \div 2) % 4 # 0 THEN ZlibError
    ELSE IF pos + 5 > a.len THEN [kind |-> "value", data |-> concat(out)]
    ELSE IF readUInt16LE(a, pos + 1) + readUInt16LE(a, pos + 3) # 65535 THEN ZlibError
    ELSE Let(pos + 5 + readUInt16LE(a, pos + 1), LAMBDA next :
         Let(Append(out, subarray(a, pos + 5, next)), LAMBDA blocks :
             IF next <= a.len /\ byteAt(a, pos) % 2 = 0
             THEN inflateBlocks(a, next, blocks)
             ELSE Let(concat(blocks), LAMBDA all :
                  IF next + 4 <= a.len /\ readUInt32BE(a, next) # adler32(all)
                  THEN ZlibError
                  ELSE [kind |-> "value", data |-> all])))

unzipSync(a) ==
    IF a.len < 2 THEN [kind |-> "value", data |-> alloc(0)]
    ELSE IF (byteAt(a, 0) % 16 # 8) \/ (byteAt(a, 0) \div 16 > 7)
            \/ ((256 * byteAt(a, 0) + byteAt(a, 1)) % 31 # 0)
            \/ ((byteAt(a, 1) \div 32) % 2 = 1)
         THEN ZlibError
    ELSE inflateBlocks(a, 2, << >>)

----------------------------------------------------------------------------
(* parser.ts: decompressGameData.                                          *)

HEADER_AREA == 200000
chunkSize == 65536
FRAME_GAP == 4

\* The while loop of decompressGameData: the chunks pushed from offset pos on.
RECURSIVE rechunk(_, _)
rechunk(compressedChunk, pos) ==
    IF pos < compressedChunk.len
    THEN <<subarray(compressedChunk, pos, pos + chunkSize)>>
             \o rechunk(compressedChunk, pos + chunkSize + FRAME_GAP)
    ELSE << >>

decompressGameData(buffer) ==
    Let(indexOf(buffer, ZLIB_HEADER, HEADER_AREA), LAMBDA zlibStart :
        IF zlibStart = -1 THEN Null
        ELSE Let(indexOf(buffer, COMPRESSED_DATA_END, zlibStart), LAMBDA endPos :
             IF endPos = -1 \/ endPos <= zlibStart THEN Null
             ELSE Let(subarray(buffer, zlibStart, endPos + Len(COMPRESSED_DATA_END)),
                      LAMBDA compressedChunk :
                  Let(unzipSync(concat(rechunk(compressedChunk, 0))), LAMBDA inflated :
                      IF inflated.kind = "throw" THEN Null ELSE inflated))))

----------------------------------------------------------------------------
(* analyzeDecompressedData (parser.ts:503-547): the lists it returns, read  *)
(* with text.match(/TECH_[A-Z_]+/g) and the like.  The decoded text of      *)
(* ASCII bytes is the bytes themselves, so the scan runs on the Buffer.     *)

isTokenChar(c) == c \in 65..90 \/ c = 95

\* The end (exclusive) of the run of [A-Z_] that starts at offset i.
RECURSIVE tokenEnd(_, _)
tokenEnd(data, i) ==
    IF i < data.len /\ isTokenChar(byteAt(data, i)) THEN tokenEnd(data, i + 1) ELSE i

\* text.match(/<prefix>[A-Z_]+/g): the matches from offset pos on, in order.
RECURSIVE matchAll(_, _, _)
matchAll(data, prefix, pos) ==
    Let(indexOf(data, prefix, pos), LAMBDA i :
        IF i = -1 THEN << >>
        ELSE Let(tokenEnd(data, i + Len(prefix)), LAMBDA e :
             IF e = i + Len(prefix) THEN matchAll(data, prefix, i + 1)
             ELSE <<[j \in 1..(e - i) |-> byteAt(data, i + j - 1)]>> \o matchAll(data, prefix, e)))

\* [...new Set(list)]: the first occurrence of every element, in order.
RECURSIVE unique(_)
unique(list) ==
    IF list = << >> THEN << >>
    ELSE Let(unique(SubSeq(list, 1, Len(list) - 1)), LAMBDA init :
             IF \E k \in 1..Len(init) : init[k] = list[Len(list)] THEN init
             ELSE Append(init, list[Len(list)]))

includes(str, pat) == seqIndexOf(str, pat, 1) # 0

filterSeq(list, Keep(_)) ==
    LET RECURSIVE go(_)
        go(k) == IF k > Len(list) THEN << >>
                 ELSE (IF Keep(list[k]) THEN <<list[k]>> ELSE << >>) \o go(k + 1)
    IN  go(1)

MAX_RESEARCH == 20

\* list.slice(0, MAX_RESEARCH).map(t => formatEnumValue(t.replace(prefix, '')))
displayNames(list, prefix) ==
    [k \in 1..Min(Len(list), MAX_RESEARCH) |-> formatEnumValue(removeFirst(list[k], prefix))]

notBoost(t) == ~includes(t, Codes("BOOST")) /\ ~includes(t, Codes("GRANT"))

VIETNAM_CITIES ==
    <<"THANG_LONG", "HUE", "HANOI", "SAIGON", "DA_NANG", "HAI_PHONG", "NHA_TRANG", "CAN_THO",
      "BIEN_HOA", "VINH">>

\* vietnamCities.filter(c => text.includes(c)).map(c => formatEnumValue(c))
playerCitiesOf(data) ==
    Let(SelectSeq(VIETNAM_CITIES, LAMBDA c : indexOf(data, Codes(c), 0) # -1), LAMBDA found :
        [k \in 1..Len(found) |-> formatEnumValue(Codes(found[k]))])

\* parser.ts:549-561
WONDER_NAMES ==
    <<"PYRAMIDS", "STONEHENGE", "HANGING_GARDENS", "ORACLE", "COLOSSEUM", "PETRA",
      "TERRACOTTA_ARMY", "MACHU_PICCHU", "GREAT_LIBRARY", "GREAT_LIGHTHOUSE",
      "COLOSSUS", "ALHAMBRA", "CHICHEN_ITZA", "ANGKOR_WAT", "MONT_ST_MICHEL",
      "FORBIDDEN_CITY", "TAJ_MAHAL", "POTALA_PALACE", "ST_BASILS_CATHEDRAL",
      "BIG_BEN", "HERMITAGE", "BOLSHOI_THEATRE", "OXFORD_UNIVERSITY",
      "RUHR_VALLEY", "STATUE_OF_LIBERTY", "EIFFEL_TOWER", "BROADWAY",
      "CRISTO_REDENTOR", "SYDNEY_OPERA_HOUSE", "PANAMA_CANAL", "VENETIAN_ARSENAL",
      "GREAT_ZIMBABWE", "APADANA", "HUEY_TEOCALLI", "JEBEL_BARKAL", "KILWA_KISIWANI",
      "KOTOKU_IN", "MEENAKSHI_TEMPLE", "STATUE_OF_ZEUS", "TEMPLE_OF_ARTEMIS",
      "AMUNDSEN_SCOTT", "BIOSPHERE", "CASA_DE_CONTRATACION", "GOLDEN_GATE_BRIDGE",
      "GREAT_BATH", "HAGIA_SOPHIA", "MAUSOLEUM_HALICARNASSUS">>

\* [...WONDER_NAMES].some(w => name.startsWith(w))
isWonder(building) ==
    Let(removeFirst(building, Codes("BUILDING_")), LAMBDA name :
        \E k \in 1..Len(WONDER_NAMES) : startsWith(name, Codes(WONDER_NAMES[k])))

WONDER_SUFFIXES ==
    <<"_NAME", "_GOLD", "_PRODUCTION", "_CULTURE", "_FAITH", "_SCIENCE", "_DESCRIPTION",
      "_RANDOMCIVICBOOST", "_RANDOMTECHBOOST", "_QUOTE">>

\* The first suffix of the list the name ends with is cut off, once.
cleanWonderName(building) ==
    Let(removeFirst(building, Codes("BUILDING_")), LAMBDA name :
    Let({k \in 1..Len(WONDER_SUFFIXES) : endsWith(name, Codes(WONDER_SUFFIXES[k]))},
        LAMBDA ending :
        formatEnumValue(IF ending = {} THEN name
                        ELSE SubSeq(name, 1,
                                    Len(name) - Len(WONDER_SUFFIXES[SetMin(ending)])))))

\* The end (exclusive) of the longest match of [A-Z_]+<suffix> whose [A-Z_]+
\* starts at offset from: the last place at or before e where the suffix ends
\* with at least one character before it; -1 when there is none.
lastSuffixEnd(data, from, e, suffix) ==
    Let({j \in (from + 1 + Len(suffix))..e : matchesAt(data, suffix, j - Len(suffix))},
        LAMBDA ends : IF ends = {} THEN -1 ELSE SetMax(ends))

\* text.match(/<prefix>[A-Z_]+<suffix>/g): the matches from offset pos on.
RECURSIVE matchAllNamed(_, _, _, _)
matchAllNamed(data, prefix, suffix, pos) ==
    Let(indexOf(data, prefix, pos), LAMBDA i :
        IF i = -1 THEN << >>
        ELSE Let(lastSuffixEnd(data, i + Len(prefix), tokenEnd(data, i + Len(prefix)), suffix),
                 LAMBDA e :
             IF e = -1 THEN matchAllNamed(data, prefix, suffix, i + 1)
             ELSE <<[j \in 1..(e - i) |-> byteAt(data, i + j - 1)]>>
                  \o matchAllNamed(data, prefix, suffix, e)))

\* parser.ts:624-631: the first 'GREAT_PERSON_INDIVIDUAL_' and the first
\* '_NAME' are removed; every word keeps its first character as it is.
formatGreatPersonName(raw) ==
    Let(splitSeq(removeFirst(removeFirst(raw, Codes("GREAT_PERSON_INDIVIDUAL_")),
                             Codes("_NAME")), 95), LAMBDA words :
        joinSeq([i \in 1..Len(words) |->
                    IF words[i] = << >> THEN << >>
                    ELSE <<words[i][1]>>
                         \o [j \in 1..(Len(words[i]) - 1) |-> toLowerCase(words[i][j + 1])]],
                32))

\* parser.ts:583-594, the city-state names the decoder knows.
SAVE_CITY_STATES ==
    <<"HATTUSA", "KABUL", "SINGAPORE", "NGAZARGAMU", "HUNZA", "LA_VENTA", "AKKAD",
      "TARUGA", "BRUSSELS", "GENEVA", "BABYLON", "MUSCAT", "VALLETTA", "BUENOS_AIRES",
      "ANTANANARIVO", "ZANZIBAR", "KUMASI", "VILNIUS", "BOLOGNA", "FEZ", "JERUSALEM",
      "KANDY", "YEREVAN", "VATICAN_CITY", "AUCKLAND", "GRANADA", "CAHOKIA",
      "MITLA", "JOHANNESBURG", "NAZCA", "AYUTTHAYA", "CAGUANA", "CHINGUETTI",
      "HONG_KONG", "MOHENJO_DARO", "NAN_MADOL", "PRESLAV", "RAPA_NUI", "TORONTO",
      "WOLIN", "ARMAGH", "LAHORE", "SAMARKAND", "MOGADISHU", "NALANDA">>

\* cityStates.some(cs => civ.includes(cs))
isCityStateToken(civ) ==
    \E k \in 1..Len(SAVE_CITY_STATES) : includes(civ, Codes(SAVE_CITY_STATES[k]))

MAX_WONDERS == 15
MAX_GREAT_PEOPLE == 15
MAX_CITY_STATES == 12

\* list.slice(0, n)
slice0(list, n) == SubSeq(list, 1, Min(Len(list), n))

mapSeq(list, F(_)) == [k \in 1..Len(list) |-> F(list[k])]

\* The wonders are cleaned and then made unique; the great people and the
\* city-states are made unique as raw tokens and formatted afterwards.
analyzeDecompressedData(data) ==
    [technologies |-> displayNames(unique(filterSeq(matchAll(data, Codes("TECH_"), 0), notBoost)),
                                   Codes("TECH_")),
     civics       |-> displayNames(unique(matchAll(data, Codes("CIVIC_"), 0)), Codes("CIVIC_")),
     wonders      |-> slice0(unique(mapSeq(unique(filterSeq(matchAll(data, Codes("BUILDING_"), 0),
                                                            isWonder)),
                                           cleanWonderName)),
                             MAX_WONDERS),
     greatPeople  |-> slice0(mapSeq(unique(matchAllNamed(data, Codes("GREAT_PERSON_INDIVIDUAL_"),
                                                         Codes("_NAME"), 0)),
                                    formatGreatPersonName),
                             MAX_GREAT_PEOPLE),
     cityStates   |-> slice0(mapSeq(filterSeq(mapSeq(unique(matchAll(data, Codes("CIVILIZATION_"),
                                                                     0)),
                                                     LAMBDA t : removeFirst(t, Codes("CIVILIZATION_"))),
                                              isCityStateToken),
                                    formatEnumValue),
                             MAX_CITY_STATES),
     playerCities |-> playerCitiesOf(data)]

----------------------------------------------------------------------------
(* parseSaveFile (parser.ts:324-470).  The GameState of the model holds    *)
(* the fields read through markers (turn, gameSpeed, mapSize), the player  *)
(* civilization and the other civs of the roster, and the extras of the    *)
(* decompressed segment (technologies, civics, playerCities); `extended`   *)
(* says whether the extras are present in the object.                      *)

isDigit(c) == c \in 48..57

\* basename(filePath): what follows the last '/'.
RECURSIVE basename(_)
basename(path) ==
    Let(seqIndexOf(path, <<47>>, 1), LAMBDA i :
        IF i = 0 THEN path ELSE basename(SubSeq(path, i + 1, Len(path))))

\* The end of the run of digits that starts at index i.
RECURSIVE digitsEnd(_, _)
digitsEnd(str, i) == IF i <= Len(str) /\ isDigit(str[i]) THEN digitsEnd(str, i + 1) ELSE i

\* parseInt(digits, 10) of a non-empty run of decimal digits.
RECURSIVE parseDigits(_)
parseDigits(digits) ==
    IF digits = << >> THEN 0
    ELSE 10 * parseDigits(SubSeq(digits, 1, Len(digits) - 1)) + (digits[Len(digits)] - 48)

\* filename.match(/AutoSave_(\d+)/): group 1 of the first match from index
\* `from` on, or Null.
RECURSIVE autoMatch(_, _)
autoMatch(filename, from) ==
    Let(seqIndexOf(filename, Codes("AutoSave_"), from), LAMBDA i :
        IF i = 0 THEN Null
        ELSE Let(digitsEnd(filename, i + 9), LAMBDA e :
             IF e = i + 9 THEN autoMatch(filename, i + 1)
             ELSE [kind |-> "value", data |-> SubSeq(filename, i + 9, e - 1)]))

MAGIC == Codes("CIV6")

InvalidMagic(magic) ==
    Throw("Error", Codes("Invalid Civ6 save file: expected CIV6 magic bytes, got ") \o magic)

\* The marker's value when it has JavaScript type t, else the default.
typed(marked, t, default) ==
    IF marked.kind = "value" /\ marked.data.t = t THEN marked.data.v ELSE default

\* if (!turn) { ... filename.match ... parseInt(autoMatch[1], 10) }
turnOr(turn, match) ==
    IF turn = u32(0) /\ match.kind = "value" THEN u32(parseDigits(match.data)) ELSE turn

\* formatEnumValue(data.replace(prefix, '')) of a string marker, else the default.
enumOr(marked, prefix, default) ==
    IF marked.kind = "value" /\ marked.data.t = "string"
    THEN formatEnumValue(removeFirst(marked.data.v, prefix))
    ELSE default

----------------------------------------------------------------------------
(* The roster: extractCivsFromHeader (parser.ts:149-242), the city table   *)
(* (473-492) and the choice of the player civ in parseSaveFile (417-445).  *)
(* The header text is kept as the buffer of its bytes: its offsets are     *)
(* those of the text wherever the bytes are below 128, which is so for the *)
(* headers that hold civilization markers here.  A CivInfo holds           *)
(* civilization, type and isHuman; the leader, read from a table by the    *)
(* same token, is left out.                                                *)

HEADER_SECTION == 150000
LOOK_BEHIND == 500
LOOK_AHEAD == 100

LEVEL_FULL_CIV == Codes("CIVILIZATION_LEVEL_FULL_CIV")

\* while (true) { pos = headerText.indexOf(marker, searchPos); ... }
RECURSIVE markerPositions(_, _, _)
markerPositions(headerText, marker, searchPos) ==
    Let(indexOf(headerText, marker, searchPos), LAMBDA pos :
        IF pos = -1 THEN << >>
        ELSE <<pos>> \o markerPositions(headerText, marker, pos + Len(marker)))

\* Group 1 of a match of /CIVILIZATION_([A-Z_]+?)(?=[^A-Z_]|$)/.
civGroup(match) == SubSeq(match, 14, Len(match))

notLevel(match) == ~startsWith(civGroup(match), Codes("LEVEL"))

\* civ.replace(/_NAME$/, '')
stripName(civ) ==
    IF endsWith(civ, Codes("_NAME")) THEN SubSeq(civ, 1, Len(civ) - 5) ELSE civ

\* The token the backward loop stops at: group 1 of the last match in the
\* LOOK_BEHIND characters before pos that does not start with LEVEL, without
\* its _NAME suffix; Null when there is none.
civBefore(headerText, pos) ==
    Let(subarray(headerText, Max(0, pos - LOOK_BEHIND), pos), LAMBDA section :
    Let(filterSeq(matchAll(section, Codes("CIVILIZATION_"), 0), notLevel), LAMBDA civMatches :
        IF civMatches = << >> THEN Null
        ELSE [kind |-> "value", data |-> stripName(civGroup(civMatches[Len(civMatches)]))]))

\* headerText.substring(pos, pos + 100).includes('Player')
playerFollows(headerText, pos) ==
    indexOf(subarray(headerText, pos, pos + LOOK_AHEAD), Codes("Player"), 0) # -1

\* for (const pos of fullCivPositions) { ... allCivs.push(...) }
RECURSIVE fullCivsFrom(_, _, _, _)
fullCivsFrom(headerText, positions, k, seenCivs) ==
    IF k > Len(positions) THEN << >>
    ELSE Let(civBefore(headerText, positions[k]), LAMBDA civ :
         IF civ.kind = "null" \/ civ.data \in seenCivs
         THEN fullCivsFrom(headerText, positions, k + 1, seenCivs)
         ELSE <<[civilization |-> formatEnumValue(civ.data),
                 type         |-> "full_civ",
                 isHuman      |-> playerFollows(headerText, positions[k])]>>
              \o fullCivsFrom(headerText, positions, k + 1, seenCivs \cup {civ.data}))

\* allCivs of extractCivsFromHeader: the player it returns is allCivs[0] and
\* aiCivs the rest, which parseSaveFile puts together again.
extractCivsFromHeader(headerText) ==
    fullCivsFrom(headerText, markerPositions(headerText, LEVEL_FULL_CIV, 0), 1, {})

cityToCiv ==
    {<<"Hue", "VIETNAM">>, <<"Da Nang", "VIETNAM">>, <<"Hanoi", "VIETNAM">>,
     <<"Saigon", "VIETNAM">>, <<"Nha Trang", "VIETNAM">>, <<"Can Tho", "VIETNAM">>,
     <<"Hai Phong", "VIETNAM">>, <<"Vinh", "VIETNAM">>, <<"Thang Long", "VIETNAM">>,
     <<"Bien Hoa", "VIETNAM">>,
     <<"Tbilisi", "GEORGIA">>, <<"Kutaisi", "GEORGIA">>, <<"Batumi", "GEORGIA">>,
     <<"Persepolis", "PERSIA">>, <<"Pasargadae", "PERSIA">>, <<"Susa", "PERSIA">>,
     <<"Ottawa", "CANADA">>, <<"Toronto", "CANADA">>, <<"Montreal", "CANADA">>,
     <<"Amsterdam", "NETHERLANDS">>, <<"Rotterdam", "NETHERLANDS">>,
     <<"The Hague", "NETHERLANDS">>,
     <<"Istanbul", "OTTOMAN">>, <<"Ankara", "OTTOMAN">>, <<"Edirne", "OTTOMAN">>,
     <<"Rome", "ROME">>, <<"Antium", "ROME">>, <<"Cumae", "ROME">>,
     <<"Alexandria", "EGYPT">>, <<"Thebes", "EGYPT">>, <<"Memphis", "EGYPT">>}

\* for (const city of cities) { const civ = cityToCiv[city]; if (civ) return civ; }
identifyCivFromCities(cities) ==
    Let(SelectSeq(cities, LAMBDA city : \E e \in cityToCiv : Codes(e[1]) = city), LAMBDA known :
        IF known = << >> THEN Null
        ELSE [kind |-> "value",
              data |-> Codes((CHOOSE e \in cityToCiv : Codes(e[1]) = known[1])[2])])

upperCased(str) == [k \in 1..Len(str) |-> toUpperCase(str[k])]

\* allCivs.findIndex(c => c.civilization.toUpperCase() === name.toUpperCase()),
\* counted from 1; 0 when there is none.
findCiv(allCivs, name) ==
    Let({k \in 1..Len(allCivs) : upperCased(allCivs[k].civilization) = upperCased(name)},
        LAMBDA found : IF found = {} THEN 0 ELSE SetMin(found))

\* for (const civ of otherCivs) { civ.isHuman = false; }
markedAI(otherCivs) == [k \in 1..Len(otherCivs) |-> [otherCivs[k] EXCEPT !.isHuman = FALSE]]

without(list, index) == SubSeq(list, 1, index - 1) \o SubSeq(list, index + 1, Len(list))

\* The player civ and the other civs at the end of parseSaveFile: the civ of
\* the player's cities when it is in the header, else the first civ.
\* The choice of the player civ with the player left among the other civs.
playerAndOthersKept(allCivs, info) ==
    Let(IF info.kind = "value" /\ info.data.playerCities # << >>
        THEN identifyCivFromCities(info.data.playerCities) ELSE Null, LAMBDA playerCivName :
    Let(IF playerCivName.kind = "value" THEN findCiv(allCivs, playerCivName.data) ELSE 0,
        LAMBDA matchIndex :
        IF matchIndex > 0
        THEN [playerCiv |-> [kind |-> "value",
                             data |-> [allCivs[matchIndex] EXCEPT !.isHuman = TRUE]],
              otherCivs |-> markedAI(allCivs)]
        ELSE IF allCivs # << >>
        THEN [playerCiv |-> [kind |-> "value", data |-> allCivs[1]],
              otherCivs |-> markedAI(Tail(allCivs))]
        ELSE [playerCiv |-> Null, otherCivs |-> << >>]))

playerAndOthers(allCivs, info) ==
    Let(IF info.kind = "value" /\ info.data.playerCities # << >>
        THEN identifyCivFromCities(info.data.playerCities) ELSE Null, LAMBDA playerCivName :
    Let(IF playerCivName.kind = "value" THEN findCiv(allCivs, playerCivName.data) ELSE 0,
        LAMBDA matchIndex :
        IF matchIndex > 0
        THEN [playerCiv |-> [kind |-> "value",
                             data |-> [allCivs[matchIndex] EXCEPT !.isHuman = TRUE]],
              otherCivs |-> markedAI(without(allCivs, matchIndex))]
        ELSE IF allCivs # << >>
        THEN [playerCiv |-> [kind |-> "value", data |-> allCivs[1]],
              otherCivs |-> markedAI(Tail(allCivs))]
        ELSE [playerCiv |-> Null, otherCivs |-> << >>]))

\* try { decompressGameData ... analyzeDecompressedData } catch {}
decompressedInfo(buffer) ==
    Let(decompressGameData(buffer), LAMBDA decompressed :
        IF decompressed.kind = "value"
        THEN [kind |-> "value", data |-> analyzeDecompressedData(decompressed.data)]
        ELSE Null)

parseSaveFile(file) ==
    Let(file.content, LAMBDA buffer :
    Let(toStringAscii(subarray(buffer, 0, 4)), LAMBDA magic :
        IF magic # MAGIC THEN InvalidMagic(magic)
        ELSE
    Let(readMarkerValue(buffer, GAME_TURN), LAMBDA turnData :
        IF turnData.kind = "throw" THEN turnData
        ELSE
    Let(readMarkerValue(buffer, GAME_SPEED), LAMBDA speedData :
        IF speedData.kind = "throw" THEN speedData
        ELSE
    Let(readMarkerValue(buffer, MAP_SIZE), LAMBDA sizeData :
        IF sizeData.kind = "throw" THEN sizeData
        ELSE
    Let(decompressedInfo(buffer), LAMBDA info :
    Let(playerAndOthers(extractCivsFromHeader(subarray(buffer, 0,
                                                       Min(buffer.len, HEADER_SECTION))),
                        info), LAMBDA civs :
        [kind |-> "value",
         data |-> [civilization |-> IF civs.playerCiv.kind = "value"
                                    THEN civs.playerCiv.data.civilization
                                    ELSE Codes("Unknown"),
                   otherCivs    |-> civs.otherCivs,
                   turn         |-> turnOr(typed(turnData, "number", u32(0)),
                                           autoMatch(basename(file.name), 1)),
                   gameSpeed    |-> enumOr(speedData, Codes("GAMESPEED_"), Codes("Standard")),
                   mapSize      |-> enumOr(sizeData, Codes("MAPSIZE_"), Codes("Unknown")),
                   extended     |-> info.kind = "value",
                   technologies |-> IF info.kind = "value" THEN info.data.technologies
                                    ELSE << >>,
                   civics       |-> IF info.kind = "value" THEN info.data.civics
                                    ELSE << >>,
                   playerCities |-> IF info.kind = "value" THEN info.data.playerCities
                                    ELSE << >>]])))))))

----------------------------------------------------------------------------
(* The tool-call handler (index.ts:378-885), the save-file tools and the   *)
(* notes store.  A tool result is [isError, text].  The text of a          *)
(* successful read_game_state is JSON.stringify(state), kept as the state  *)
(* it serialises; the text of a brief is kept as the state it renders and  *)
(* the context appended to it.                                             *)

Undefined == [kind |-> "undefined"]

\* Map.get and Map.set on a Map kept as its set of <<key, value>> entries.
mapGet(map, key) ==
    IF \E e \in map : e[1] = key
    THEN [kind |-> "value", data |-> (CHOOSE e \in map : e[1] = key)[2]]
    ELSE Undefined
mapSet(map, key, value) == {e \in map : e[1] # key} \cup {<<key, value>>}

TextResult(text) == [isError |-> FALSE, text |-> text]

\* The catch of the handler: `Error: ${message}` with isError.
ErrorResult(error) == [isError |-> TRUE, text |-> Codes("Error: ") \o error.message]

generateStrategyBrief(state) == [brief |-> state]

\* Is the string truthy (non-empty)?
truthy(v) == v.kind = "value" /\ v.data # ""

read_game_state(file) ==
    Let(parseSaveFile(file), LAMBDA state :
        IF state.kind = "throw" THEN ErrorResult(state)
        ELSE TextResult([json |-> state.data]))

get_strategy_brief(file, store) ==
    Let(parseSaveFile(file), LAMBDA state :
        IF state.kind = "throw" THEN ErrorResult(state)
        ELSE Let(mapGet(store, "current"), LAMBDA context :
             TextResult([brief   |-> generateStrategyBrief(state.data).brief,
                         context |-> IF truthy(context) THEN context ELSE Undefined])))

NO_CONTEXT == "No game context has been set."

get_game_context(store) ==
    Let(mapGet(store, "current"), LAMBDA context :
        TextResult(IF truthy(context) THEN context.data ELSE NO_CONTEXT))

UnknownTool(name) == ErrorResult(Throw("Error", Codes("Unknown tool: ") \o Codes(name)))

\* SetGameContextSchema.parse(args): z.object({ context: z.string() }).  The
\* arguments are kept as the JavaScript value of `context`; the message of the
\* ZodError, a JSON list of the issues, is kept as its first issue.
ZodError == Throw("ZodError", Codes("Expected string, received "))

parseSetGameContext(args) ==
    IF args.context.t = "string" THEN [kind |-> "value", data |-> [context |-> args.context.v]]
    ELSE [ZodError EXCEPT !.message = @ \o Codes(args.context.t)]

CONTEXT_SAVED == "Game context saved."

\* The context is stored before the arguments are validated.
storeThenParse(args, store) ==
    [store |-> mapSet(store, "current", args.context.v),
     out   |-> Let(parseSetGameContext(args), LAMBDA parsed :
                   IF parsed.kind = "throw" THEN ErrorResult(parsed)
                   ELSE TextResult(CONTEXT_SAVED))]

\* case 'set_game_context': the store and the response after the call.
set_game_context(args, store) ==
    Let(parseSetGameContext(args), LAMBDA parsed :
        IF parsed.kind = "throw" THEN [store |-> store, out |-> ErrorResult(parsed)]
        ELSE [store |-> mapSet(store, "current", parsed.data.context),
              out   |-> TextResult(CONTEXT_SAVED)])

\* The handler of a tools/call request for the save-file tools and the notes
\* store: the store and the response after the call.
handleRequest(name, args, file, store) ==
    CASE name = "read_game_state"    -> [store |-> store, out |-> read_game_state(file)]
      [] name = "get_strategy_brief" -> [store |-> store, out |-> get_strategy_brief(file, store)]
      [] name = "set_game_context"   -> set_game_context(args, store)
      [] name = "get_game_context"   -> [store |-> store, out |-> get_game_context(store)]
      [] OTHER                       -> [store |-> store, out |-> UnknownTool(name)]

----------------------------------------------------------------------------
(* The save files of the model: how a save is laid out (spec section       *)
(* 6), built from a plaintext, framing bytes and a marker record.          *)

\* b with the bytes seq written at offset off (b grows when needed).
writeAt(b, off, seq) ==
    LET span == off..(off + Len(seq) - 1)
        keep == {o \in DOMAIN b.at : o \notin span}
        new  == {o \in span : seq[o - off + 1] # 0}
    IN  [len |-> Max(b.len, off + Len(seq)),
         at  |-> [o \in keep \cup new |-> IF o \in span THEN seq[o - off + 1] ELSE b.at[o]]]

\* The stored deflate blocks of plain from offset pos on, closed by the empty
\* stored block of a sync flush, 00 00 00 FF FF.
RECURSIVE storedBlocks(_, _)
storedBlocks(plain, pos) ==
    IF pos >= plain.len THEN <<BufferFrom(<<0, 0, 0, 255, 255>>)>>
    ELSE LET n == Min(65535, plain.len - pos) IN
         <<BufferFrom(<<0, n % 256, n \div 256, (65535 - n) % 256, (65535 - n) \div 256>>),
           subarray(plain, pos, pos + n)>> \o storedBlocks(plain, pos + n)

\* The compressed stream of a plaintext: zlib header, stored blocks, sync flush.
deflateStored(plain) == concat(<<BufferFrom(ZLIB_HEADER)>> \o storedBlocks(plain, 0))

\* The stream cut into 65536-byte chunks, each followed by the 4 framing bytes.
RECURSIVE framed(_, _)
framed(stream, gap) ==
    IF stream.len = 0 THEN alloc(0)
    ELSE concat(<<subarray(stream, 0, chunkSize), BufferFrom(gap),
                  framed(subarray(stream, chunkSize, stream.len), gap)>>)

\* A save: the header (magic and what follows it), zero padding up to offset
\* start, then the segment.
saveLayout(header, start, segment) ==
    concat(<<header, alloc(start - header.len), segment>>)

\* n as w little-endian bytes.
le(n, w) == [i \in 1..w |-> (n \div (256 ^ (i - 1))) % 256]

\* A marker record as readMarkerValue addresses it: the marker, the type tag
\* at +4, the declared length at +8, the payload at +16.
markerRecord(marker, tag, declared, payload) ==
    marker \o le(tag, 4) \o le(declared, 2) \o <<0, 0, 0, 0, 0, 0>> \o payload

MaxChunks == 2     \* chunks of 65536 bytes in a built segment: 1..MaxChunks
MaxTail == 4       \* bytes of the stream after the last full chunk: 0..MaxTail
MaxPad == 1        \* a marker record starts at offset 4 + 3k, k in 0..MaxPad

FileNames == {Codes("Saves/AutoSave_0012.Civ6Save"), Codes("Saves/Georgia.Civ6Save")}

\* First bytes of a file, "CIV6" and what else may be found there.
MagicSamples ==
    {<<67, 73, 86, 54>>, <<195, 73, 86, 54>>, <<67, 73, 86, 182>>, <<67, 73, 86, 55>>,
     <<99, 105, 118, 54>>, <<67, 73, 86>>, << >>, <<0, 0, 0, 0>>}

MagicFiles ==
    {[name |-> Codes("Saves/Georgia.Civ6Save"), content |-> BufferFrom(m \o body)] :
        m \in MagicSamples, body \in {<< >>, <<1, 0, 0, 0, 7>>}}

\* Payloads of a marker record: [declared, bytes].
Payloads ==
    {[declared |-> 0,  bytes |-> le(12, 4)],
     [declared |-> 0,  bytes |-> le(0, 4)],
     [declared |-> 17, bytes |-> Codes("GAMESPEED_ONLINE") \o <<0>>],
     [declared |-> 14, bytes |-> Codes("MAPSIZE_SMALL") \o <<0, 33>>],
     [declared |-> 3,  bytes |-> <<195, 169, 0>>]}

TypeTags == {1, 2, 5, 7}

\* "CIV6", zeros up to offset p, one marker record, optionally a second record
\* of the same marker behind it, the whole cut to `size` bytes.
markerFile(name, marker, p, tag, payload, second, size) ==
    LET rec  == markerRecord(marker, tag, payload.declared, payload.bytes)
        more == IF second THEN markerRecord(marker, 2, 0, le(99, 4)) ELSE << >>
        all  == concat(<<BufferFrom(<<67, 73, 86, 54>>), alloc(p - 4), BufferFrom(rec \o more)>>)
    IN  [name |-> name, content |-> subarray(all, 0, size)]

Markers == {GAME_TURN, GAME_SPEED, MAP_SIZE}

RECORD_SPAN == 64  \* room for a whole marker record and its payload

\* Whole records, alone or followed by a second one, and records cut short by
\* the end of the file (after the marker, inside the tag, inside the declared
\* length, inside the payload).
MarkerFiles ==
    {markerFile(name, marker, 4 + 3 * k, tag, payload, second, 4 + 3 * k + RECORD_SPAN) :
        name \in FileNames, marker \in Markers, k \in 0..MaxPad,
        tag \in TypeTags, payload \in Payloads, second \in BOOLEAN}
    \cup
    {markerFile(Codes("Saves/AutoSave_0012.Civ6Save"), marker, 4 + 3 * k, tag, payload, FALSE,
                4 + 3 * k + cut) :
        marker \in Markers, k \in 0..MaxPad, tag \in TypeTags, payload \in Payloads,
        cut \in {4, 7, 9, 18}}

\* The length of the plaintext whose stream fills k chunks and d bytes more
\* (2 header bytes, 5 per stored block, 5 of the sync flush).
plainLen(k, d) == k * chunkSize + d - 7 - 5 * k

\* Plaintexts: zeros with research tokens at the front, in two variants.
plaintext(n, variant) ==
    IF variant = 0 THEN writeAt(alloc(n), 0, Codes("TECH_POTTERY"))
    ELSE writeAt(writeAt(alloc(n), 0, Codes("TECH_MINING") \o <<0>> \o Codes("CIVIC_CODE_OF_LAWS")),
                 n - 1, <<1>>)

PlainLens == {20} \cup {plainLen(k, d) : k \in 1..MaxChunks, d \in 0..MaxTail}
Plaintexts == {plaintext(n, v) : n \in PlainLens, v \in {0, 1}}

\* The 4 framing bytes that follow every chunk.
Framings == {<<1, 2, 3, 4>>, <<0, 0, 255, 255>>, <<255, 255, 120, 156>>}

\* Where the segment starts: at the end of the header area or a little later.
SegmentStarts == {HEADER_AREA, HEADER_AREA + 3}

\* The header of a save with a segment: the magic and a GAME_TURN record.
turnHeader(turn) == BufferFrom(<<67, 73, 86, 54>> \o markerRecord(GAME_TURN, 2, 0, le(turn, 4)))

segmentFile(plain, gap, start) ==
    [name    |-> Codes("Saves/Georgia.Civ6Save"),
     content |-> saveLayout(turnHeader(12), start, framed(deflateStored(plain), gap))]

\* Every built save with the plaintext it was built from.
SegmentCases == {[file |-> segmentFile(plain, gap, start), plain |-> plain] :
                    plain \in Plaintexts, gap \in Framings, start \in SegmentStarts}

SegmentFiles == {c.file : c \in SegmentCases}

\* Texts of research, wonder, great-person and city-state tokens, each token
\* followed by a zero byte, in the order of the lists below.
MaxResearch == 22  \* distinct one-letter tokens of a long list: 1..MaxResearch

Letters == "ABCDEFGHIJKLMNOPQRSTUVWXYZ"

letterTokens(prefix, suffix, n) == [k \in 1..n |-> prefix \o SubSeq(Letters, k, k) \o suffix]

RECURSIVE tokenText(_)
tokenText(tokens) ==
    IF tokens = << >> THEN << >> ELSE Codes(Head(tokens)) \o <<0>> \o tokenText(Tail(tokens))

\* A building token: the name and the suffix it is written with.
building(name, suffix) == [name |-> name, suffix |-> suffix]

buildingToken(b) == "BUILDING_" \o b.name \o b.suffix

ShortWonders ==
    <<"ORACLE", "PETRA", "APADANA", "BIG_BEN", "BROADWAY", "COLOSSUS", "PYRAMIDS", "ALHAMBRA",
      "HERMITAGE", "BIOSPHERE", "TAJ_MAHAL", "KOTOKU_IN", "COLOSSEUM", "STONEHENGE",
      "GREAT_BATH", "ANGKOR_WAT">>

\* The token lists of a text: research tokens and great-person tokens as
\* written, buildings as [name, suffix], civilization tokens as written.
researchCase(techs, civics, buildings, people, civs) ==
    LET plain == BufferFrom(tokenText(techs \o civics
                                      \o [k \in 1..Len(buildings) |-> buildingToken(buildings[k])]
                                      \o people \o civs))
    IN  [file      |-> [name    |-> Codes("Saves/Georgia.Civ6Save"),
                        content |-> saveLayout(turnHeader(12), HEADER_AREA,
                                               framed(deflateStored(plain), <<1, 2, 3, 4>>))],
         plain     |-> plain,
         techs     |-> techs,
         civics    |-> civics,
         buildings |-> buildings,
         people    |-> people,
         civs      |-> civs]

\* Long lists with repeated tokens, boost tokens among the technologies,
\* wonders written with several suffixes next to buildings that are no
\* wonders, great-person tokens that hold '_NAME' twice, and a text with one
\* token of every kind.
ResearchCases ==
    {researchCase(<<"TECH_B", "TECH_A_BOOST", "TECH_B">> \o letterTokens("TECH_", "", MaxResearch)
                      \o <<"TECH_GRANT_Z", "TECH_A">>,
                  << >>, << >>, << >>, << >>),
     researchCase(<< >>,
                  <<"CIVIC_C", "CIVIC_C">> \o letterTokens("CIVIC_", "", MaxResearch),
                  << >>, << >>, << >>),
     researchCase(<< >>, << >>,
                  <<building("PETRA", "_DESCRIPTION"), building("GRANARY", ""),
                    building("PETRA", "_QUOTE"), building("ORACLE", ""), building("PETRA", ""),
                    building("ORACLE", "_NAME"), building("BIG_BEN_GOLD", "_NAME"),
                    building("MONUMENT", "_NAME"), building("BIG_BEN", "_GOLD")>>,
                  << >>, << >>),
     researchCase(<< >>, << >>,
                  <<building("ORACLE", "_QUOTE")>>
                      \o [k \in 1..Len(ShortWonders) |-> building(ShortWonders[k], "")],
                  << >>, << >>),
     researchCase(<< >>, << >>, << >>,
                  <<"GREAT_PERSON_INDIVIDUAL_C_NAME">>
                      \o letterTokens("GREAT_PERSON_INDIVIDUAL_", "_NAME", 16),
                  << >>),
     researchCase(<< >>, << >>, << >>,
                  <<"GREAT_PERSON_INDIVIDUAL_A_NAME_B_NAME",
                    "GREAT_PERSON_INDIVIDUAL_A_B_NAME_NAME">>,
                  << >>),
     researchCase(<<"TECH_POTTERY">>, <<"CIVIC_CODE_OF_LAWS">>, <<building("ORACLE", "")>>,
                  <<"GREAT_PERSON_INDIVIDUAL_HOMER_NAME">>,
                  <<"CIVILIZATION_KABUL", "CIVILIZATION_ROME", "CIVILIZATION_KABUL",
                    "CIVILIZATION_HONG_KONG">>)}

ResearchFiles == {c.file : c \in ResearchCases}

\* Saves whose segment cannot be read: no zlib signature at or after 200000
\* (none at all, or one only inside the header area), no end sentinel after
\* the signature, a stream that does not inflate (block type 1, a stored
\* block whose length check fails), and the same with a marker inside it.
BrokenSegments ==
    LET stream == deflateStored(plaintext(20, 0)) IN
    {alloc(10),
     subarray(stream, 0, stream.len - 2),
     BufferFrom(ZLIB_HEADER \o <<3, 0>> \o COMPRESSED_DATA_END),
     BufferFrom(ZLIB_HEADER \o <<0, 5, 0, 0, 0, 84, 69, 67, 72, 95>> \o COMPRESSED_DATA_END),
     BufferFrom(ZLIB_HEADER \o <<3>> \o markerRecord(GAME_TURN, 2, 0, le(40, 4)))}

BrokenFiles ==
    {[name |-> Codes("Saves/Georgia.Civ6Save"),
      content |-> saveLayout(turnHeader(t), HEADER_AREA, seg)] :
        t \in {0, 12}, seg \in BrokenSegments}
    \cup
    {[name |-> Codes("Saves/Georgia.Civ6Save"),
      content |-> concat(<<turnHeader(12), deflateStored(plaintext(20, 0)), alloc(HEADER_AREA)>>)]}

\* One civilization of a header: its name (plain, or as the key of its
\* display name), the level marker, and who plays it.
civEntry(civ, named, human) ==
    (IF named THEN Codes("LOC_CIVILIZATION_") \o Codes(civ) \o Codes("_NAME")
     ELSE Codes("CIVILIZATION_") \o Codes(civ))
    \o <<0>> \o LEVEL_FULL_CIV \o <<0>> \o (IF human THEN Codes("Player") ELSE Codes("AI"))

MaxCivs == 2       \* civilization entries in a built header: 1..MaxCivs

CivEntries == {[civ |-> civ, human |-> human] : civ \in {"VIETNAM", "GEORGIA"}, human \in BOOLEAN}

EntryLists == UNION {[1..n -> CivEntries] : n \in 1..MaxCivs}

\* How the entries are laid out: the zero bytes after each, and the form of
\* the names.  With no gap the entry that follows lies within LOOK_AHEAD.
Layouts ==
    {[gap |-> 0, named |-> FALSE], [gap |-> 120, named |-> FALSE], [gap |-> 120, named |-> TRUE]}

RECURSIVE entriesText(_, _)
entriesText(entries, layout) ==
    IF entries = << >> THEN << >>
    ELSE civEntry(Head(entries).civ, layout.named, Head(entries).human)
         \o [k \in 1..layout.gap |-> 0] \o entriesText(Tail(entries), layout)

rosterHeader(entries, layout) == BufferFrom(<<67, 73, 86, 54, 0>> \o entriesText(entries, layout))

\* What follows the header: nothing, or a segment with or without the name
\* of a city of the player.
RosterPlains == {writeAt(alloc(20), 0, Codes("LOC_CITY_NAME_HUE")), plaintext(20, 0)}

rosterFile(entries, layout, plain) ==
    [name    |-> Codes("Saves/Georgia.Civ6Save"),
     content |-> IF plain.len = 0 THEN rosterHeader(entries, layout)
                 ELSE saveLayout(rosterHeader(entries, layout), HEADER_AREA,
                                 framed(deflateStored(plain), <<1, 2, 3, 4>>))]

\* Headers of three civilizations, computer-played as far as the header
\* tells: every order of three, and a civilization listed a second time.
TrioLists ==
    {[k \in 1..3 |-> [civ |-> order[k], human |-> FALSE]] :
        order \in {<<"GEORGIA", "VIETNAM", "ROME">>, <<"VIETNAM", "ROME", "GEORGIA">>,
                   <<"ROME", "GEORGIA", "VIETNAM">>, <<"GEORGIA", "ROME", "EGYPT">>,
                   <<"GEORGIA", "VIETNAM", "GEORGIA">>, <<"VIETNAM", "GEORGIA", "VIETNAM">>}}

\* Every built save with the entries and the plaintext it was built from.
RosterCases ==
    {[file |-> rosterFile(entries, layout, plain), entries |-> entries, plain |-> plain] :
        entries \in EntryLists \cup TrioLists, layout \in Layouts,
        plain \in RosterPlains \cup {alloc(0)}}

RosterFiles == {c.file : c \in RosterCases}

SaveFiles ==
    MagicFiles \cup MarkerFiles \cup SegmentFiles \cup ResearchFiles \cup BrokenFiles
    \cup RosterFiles

----------------------------------------------------------------------------
(* The save-file specification: a save is on disk, and the tools that read *)
(* it and the decoder's functions are called in any order, one call at a   *)
(* time (a handler runs to completion before the next request is read).    *)

Contexts == {"", "Rome is hostile", "Ally with Georgia"}

NoArguments == [none |-> TRUE]

\* Arguments of set_game_context: a string, a number, or no context at all.
ContextArguments ==
    {[context |-> [t |-> "string", v |-> c]] : c \in Contexts}
    \cup {[context |-> [t |-> "number", v |-> "7"]],
          [context |-> [t |-> "undefined", v |-> "undefined"]]}

InitSave ==
    /\ saveFile \in SaveFiles
    /\ statsFile = NoFile
    /\ scoresFile = NoFile
    /\ diplomacyFile = NoFile
    /\ logDir = NoLogs
    /\ gameContext = {}
    /\ ret = NoCall

logs == <<statsFile, scoresFile, diplomacyFile, logDir>>

CallParseSaveFile ==
    /\ ret = NoCall
    /\ ret' = [fn |-> "parseSaveFile", out |-> parseSaveFile(saveFile)]
    /\ UNCHANGED <<saveFile, logs, gameContext>>

CallReadMarkerValue(marker) ==
    /\ ret = NoCall
    /\ ret' = [fn |-> "readMarkerValue", marker |-> marker,
               out |-> readMarkerValue(saveFile.content, marker)]
    /\ UNCHANGED <<saveFile, logs, gameContext>>

CallDecompressGameData ==
    /\ ret = NoCall
    /\ ret' = [fn |-> "decompressGameData", out |-> decompressGameData(saveFile.content)]
    /\ UNCHANGED <<saveFile, logs, gameContext>>

\* analyzeDecompressedData on the segment decompressGameData returns.
CallAnalyzeDecompressedData ==
    /\ ret = NoCall
    /\ decompressGameData(saveFile.content).kind = "value"
    /\ ret' = [fn |-> "analyzeDecompressedData",
               out |-> analyzeDecompressedData(decompressGameData(saveFile.content).data)]
    /\ UNCHANGED <<saveFile, logs, gameContext>>

\* One tools/call request: the handler runs to its response.
Handle(name, args) ==
    Let(handleRequest(name, args, saveFile, gameContext), LAMBDA done :
        /\ gameContext' = done.store
        /\ ret' = [fn |-> name, args |-> args, out |-> done.out])

ReadGameState ==
    /\ ret = NoCall
    /\ Handle("read_game_state", NoArguments)
    /\ UNCHANGED <<saveFile, logs>>

GetStrategyBrief ==
    /\ ret = NoCall
    /\ Handle("get_strategy_brief", NoArguments)
    /\ UNCHANGED <<saveFile, logs>>

SetGameContext(args) ==
    /\ ret = NoCall
    /\ Handle("set_game_context", args)
    /\ UNCHANGED <<saveFile, logs>>

GetGameContext ==
    /\ ret = NoCall
    /\ Handle("get_game_context", NoArguments)
    /\ UNCHANGED <<saveFile, logs>>

CallUnknownTool ==
    /\ ret = NoCall
    /\ Handle("no_such_tool", NoArguments)
    /\ UNCHANGED <<saveFile, logs>>

\* The response of the last call has been delivered; the next call may come.
Respond ==
    /\ ret # NoCall
    /\ ret' = NoCall
    /\ UNCHANGED <<saveFile, logs, gameContext>>

NextSave ==
    \/ CallParseSaveFile
    \/ \E marker \in Markers : CallReadMarkerValue(marker)
    \/ CallDecompressGameData
    \/ CallAnalyzeDecompressedData
    \/ ReadGameState
    \/ GetStrategyBrief
    \/ Respond

SpecSave == InitSave /\ [][NextSave]_vars

----------------------------------------------------------------------------
(* The specification of the notes store: a few saves, and the tools of the *)
(* server called in any order with any arguments, one request at a time.   *)

NotesSaves ==
    {segmentFile(plaintext(20, 1), <<1, 2, 3, 4>>, HEADER_AREA),
     rosterFile(<<[civ |-> "GEORGIA", human |-> TRUE], [civ |-> "VIETNAM", human |-> FALSE]>>,
                [gap |-> 120, named |-> FALSE], alloc(0)),
     markerFile(Codes("Saves/AutoSave_0012.Civ6Save"), GAME_SPEED, 4, 5,
                [declared |-> 17, bytes |-> Codes("GAMESPEED_ONLINE") \o <<0>>], FALSE, 68),
     [name |-> Codes("Saves/Georgia.Civ6Save"), content |-> BufferFrom(<<67, 73, 86, 54>>)],
     [name |-> Codes("Saves/Georgia.Civ6Save"), content |-> BufferFrom(<<99, 105, 118, 54>>)]}

InitNotes ==
    /\ saveFile \in NotesSaves
    /\ statsFile = NoFile
    /\ scoresFile = NoFile
    /\ diplomacyFile = NoFile
    /\ logDir = NoLogs
    /\ gameContext = {}
    /\ ret = NoCall

NextNotes ==
    \/ ReadGameState
    \/ GetStrategyBrief
    \/ \E args \in ContextArguments : SetGameContext(args)
    \/ GetGameContext
    \/ CallUnknownTool
    \/ Respond

SpecNotes == InitNotes /\ [][NextNotes]_vars

----------------------------------------------------------------------------
(* Properties of the save-file decoder.                                    *)

\* The first four bytes are ASCII "CIV6".
hasMagic(buffer) ==
    buffer.len >= 4 /\ \A k \in 1..4 : byteAt(buffer, k - 1) = <<67, 73, 86, 54>>[k]

\* The bytes found where the magic is expected, as characters.
bytesFound(buffer) == [k \in 1..Min(4, buffer.len) |-> byteAt(buffer, k - 1)]

\* C1: for every save buffer whose first four bytes are "CIV6", parseSaveFile
\* returns a GameState and never throws, whatever the rest of the buffer is.
C1_MagicNeverThrows ==
    (ret.fn = "parseSaveFile" /\ hasMagic(saveFile.content)) => ret.out.kind = "value"

\* C2: for every save buffer whose first four bytes are not "CIV6",
\* parseSaveFile throws an error whose message holds the four bytes found and
\* produces no GameState; read_game_state and get_strategy_brief then answer
\* with an isError response that carries this message.
C2_BadMagicRejected ==
    ~hasMagic(saveFile.content) =>
        /\ ret.fn = "parseSaveFile" =>
              /\ ret.out.kind = "throw"
              /\ endsWith(ret.out.message, bytesFound(saveFile.content))
        /\ ret.fn \in {"read_game_state", "get_strategy_brief"} =>
              /\ ret.out.isError
              /\ endsWith(ret.out.text, bytesFound(saveFile.content))

\* C3: for a segment built as chunks of exactly 65536 stream bytes, each
\* followed by 4 arbitrary framing bytes (the last chunk possibly shorter),
\* decompressGameData reproduces the original plaintext exactly.
C3_ReassemblyRoundTrips ==
    ret.fn = "decompressGameData" =>
        \A c \in SegmentCases :
            saveFile = c.file => ret.out = [kind |-> "value", data |-> c.plain]

\* The first offset at which the marker occurs (a marker starts with a
\* non-zero byte, so it starts at a listed byte), or -1.
firstOccurrence(buffer, marker) ==
    Let({p \in DOMAIN buffer.at :
            p + Len(marker) <= buffer.len
            /\ \A k \in 1..Len(marker) : byteAt(buffer, p + k - 1) = marker[k]},
        LAMBDA places : IF places = {} THEN -1 ELSE SetMin(places))

\* The little-endian number of the w bytes at offset off, w <= 4, as halves.
littleEndian(buffer, off, w) ==
    [hi |-> (IF w > 2 THEN byteAt(buffer, off + 2) ELSE 0)
            + 256 * (IF w > 3 THEN byteAt(buffer, off + 3) ELSE 0),
     lo |-> byteAt(buffer, off) + 256 * (IF w > 1 THEN byteAt(buffer, off + 1) ELSE 0)]

\* What C4 says readMarkerValue returns for a marker at p whose record
\* lies inside the buffer: TRUE when `out` is that.
decodesRecordAt(buffer, p, out) ==
    Let(littleEndian(buffer, p + 4, 4), LAMBDA tag :
    Let(littleEndian(buffer, p + 8, 2).lo, LAMBDA declared :
        /\ (tag = u32(2) /\ p + 20 <= buffer.len) =>
              /\ out.kind = "value"
              /\ out.data = JsNumber(littleEndian(buffer, p + 16, 4))
        /\ (tag = u32(1) /\ p + 20 <= buffer.len) =>
              /\ out.kind = "value"
              /\ out.data = JsBoolean(littleEndian(buffer, p + 16, 4) # u32(0))
        /\ (tag = u32(5) /\ declared >= 1 /\ p + 16 + declared - 1 <= buffer.len) =>
              /\ out.kind = "value"
              /\ out.data = JsString(utf8Decode(buffer, p + 16, p + 16 + declared - 1))
              /\ (\A k \in 0..(declared - 2) : byteAt(buffer, p + 16 + k) \in 1..127) =>
                    out.data.v = [k \in 1..(declared - 1) |-> byteAt(buffer, p + 15 + k)]))

\* C4: tag-value decoding is offset-exact.  With the marker first occurring at
\* offset p, readMarkerValue returns the little-endian integer at p+16 when the
\* tag at p+4 is 2, (that integer # 0) when the tag is 1, and for tag 5 with
\* declared length L at p+8 the L-1 bytes from p+16 decoded as UTF-8, without
\* the trailing null.
C4_OffsetExactDecoding ==
    ret.fn = "readMarkerValue" =>
        Let(firstOccurrence(saveFile.content, ret.marker), LAMBDA p :
            (p # -1 /\ p + 8 <= saveFile.content.len)
                => decodesRecordAt(saveFile.content, p, ret.out))

\* A string record behind padding has been decoded to its text.
C4_Witness ==
    /\ ret.fn = "readMarkerValue"
    /\ ret.marker = GAME_SPEED
    /\ firstOccurrence(saveFile.content, GAME_SPEED) = 7
    /\ littleEndian(saveFile.content, 11, 4) = u32(5)
    /\ ret.out.kind = "value"
    /\ ret.out.data = JsString(Codes("GAMESPEED_ONLINE"))

\* The marker does not occur in the buffer, or the type tag at its first
\* occurrence is not 1, 2 or 5.
absent(buffer, marker) ==
    Let(firstOccurrence(buffer, marker), LAMBDA p :
        \/ p = -1
        \/ /\ p + 8 <= buffer.len
           /\ littleEndian(buffer, p + 4, 4) \notin {u32(1), u32(2), u32(5)})

\* The turn the file name supplies, 0 when it supplies none.
turnOfName(name) == IF includes(name, Codes("AutoSave_0012")) THEN u32(12) ELSE u32(0)

\* C22: first occurrence wins and absence is recoverable.  readMarkerValue
\* returns absent when the marker does not occur or the type tag at its first
\* occurrence is not 1, 2 or 5, whatever follows that occurrence; parseSaveFile
\* then returns a GameState with the default of that field (the turn of the
\* file name or 0, game speed Standard, map size Unknown), the other two
\* fields being what their own markers decode to.
C22_FirstOccurrenceWins ==
    /\ ret.fn = "readMarkerValue" /\ absent(saveFile.content, ret.marker) => ret.out = Null
    /\ (ret.fn = "parseSaveFile" /\ hasMagic(saveFile.content)
          /\ \E marker \in Markers : absent(saveFile.content, marker)) =>
          /\ ret.out.kind = "value"
          /\ IF absent(saveFile.content, GAME_TURN)
             THEN ret.out.data.turn = turnOfName(saveFile.name)
             ELSE ret.out.data.turn
                     = turnOr(typed(readMarkerValue(saveFile.content, GAME_TURN), "number",
                                    u32(0)), autoMatch(basename(saveFile.name), 1))
          /\ IF absent(saveFile.content, GAME_SPEED)
             THEN ret.out.data.gameSpeed = Codes("Standard")
             ELSE ret.out.data.gameSpeed
                     = enumOr(readMarkerValue(saveFile.content, GAME_SPEED),
                              Codes("GAMESPEED_"), Codes("Standard"))
          /\ IF absent(saveFile.content, MAP_SIZE)
             THEN ret.out.data.mapSize = Codes("Unknown")
             ELSE ret.out.data.mapSize
                     = enumOr(readMarkerValue(saveFile.content, MAP_SIZE),
                              Codes("MAPSIZE_"), Codes("Unknown"))

\* The three ways the segment is unreadable: no zlib signature at or after
\* offset 200000, no end sentinel behind the signature, or a stream that does
\* not inflate.
signatureAt(buffer) ==
    Let({o \in DOMAIN buffer.at :
            o >= HEADER_AREA /\ o + 2 <= buffer.len
            /\ byteAt(buffer, o) = 120 /\ byteAt(buffer, o + 1) = 156},
        LAMBDA places : IF places = {} THEN -1 ELSE SetMin(places))

sentinelBehind(buffer, from) ==
    \E x \in DOMAIN buffer.at :
        /\ x - 2 >= from /\ x + 2 <= buffer.len
        /\ byteAt(buffer, x - 2) = 0 /\ byteAt(buffer, x - 1) = 0
        /\ byteAt(buffer, x) = 255 /\ byteAt(buffer, x + 1) = 255

segmentUnreadable(buffer) ==
    Let(signatureAt(buffer), LAMBDA z :
        \/ z = -1
        \/ ~sentinelBehind(buffer, z)
        \/ decompressGameData(buffer).kind = "null")

withoutSegment(file) ==
    [name |-> file.name, content |-> subarray(file.content, 0, HEADER_AREA)]

\* C5: decompression is never fatal.  Whenever the segment is unreadable,
\* parseSaveFile still returns a GameState whose header-derived fields are
\* those of the same save without a segment, and the extras are absent.
C5_DecompressionNeverFatal ==
    (ret.fn = "parseSaveFile" /\ hasMagic(saveFile.content)
       /\ segmentUnreadable(saveFile.content)) =>
        /\ ret.out.kind = "value"
        /\ ~ret.out.data.extended
        /\ ret.out.data.technologies = << >> /\ ret.out.data.civics = << >>
        /\ Let(parseSaveFile(withoutSegment(saveFile)), LAMBDA plain :
               /\ plain.kind = "value"
               /\ plain.data.turn = ret.out.data.turn
               /\ plain.data.gameSpeed = ret.out.data.gameSpeed
               /\ plain.data.mapSize = ret.out.data.mapSize)

\* The CivInfo objects parseSaveFile ends with: the player civ and the others.
rosterOf(buffer) ==
    playerAndOthers(extractCivsFromHeader(subarray(buffer, 0, Min(buffer.len, HEADER_SECTION))),
                    decompressedInfo(buffer))

humansOf(civs) == Cardinality({k \in 1..Len(civs) : civs[k].isHuman})

noRepeats(list) == \A i, j \in 1..Len(list) : i # j => list[i] # list[j]

\* The entries are the first `cap` distinct keys, in the order in which each
\* key is first met.
firstKept(keys, cap, entries) ==
    /\ Len(entries) = Min(Cardinality({keys[p] : p \in 1..Len(keys)}), cap)
    /\ \A k \in 1..Len(entries) :
          \E p \in 1..Len(keys) :
              /\ keys[p] = entries[k]
              /\ \A q \in 1..(p - 1) : keys[q] # keys[p]
              /\ Cardinality({keys[q] : q \in 1..(p - 1)}) = k - 1

\* The research tokens of a list that are no boost or grant tokens, as they
\* are displayed.
researchKeys(tokens, prefix) ==
    Let(SelectSeq(tokens, LAMBDA t : ~includes(Codes(t), Codes("BOOST"))
                                     /\ ~includes(Codes(t), Codes("GRANT"))), LAMBDA kept :
        [k \in 1..Len(kept) |-> formatEnumValue(SubSeq(Codes(kept[k]), Len(prefix) + 1,
                                                       Len(kept[k])))])

\* The buildings of a list whose name starts with a wonder of the allow-list,
\* each as its displayed name without the suffix it is written with.
wonderKeys(buildings) ==
    Let(SelectSeq(buildings, LAMBDA b : \E k \in 1..Len(WONDER_NAMES) :
                                            startsWith(Codes(b.name), Codes(WONDER_NAMES[k]))),
        LAMBDA kept : [k \in 1..Len(kept) |-> formatEnumValue(Codes(kept[k].name))])

personKeys(people) == [k \in 1..Len(people) |-> formatGreatPersonName(Codes(people[k]))]

\* C26: every list analyzeDecompressedData returns is bounded and free of
\* duplicates: technologies and civics hold at most 20 entries, wonders and
\* greatPeople at most 15, no list holds the same entry twice (wonder tokens
\* that differ only by a localization suffix count as one), every wonder
\* entry starts with a name of the wonder allow-list, and the kept entries
\* are the first ones in order of first match in the text.
C26_ListsBoundedDistinct ==
    ret.fn = "analyzeDecompressedData" =>
        /\ Len(ret.out.technologies) <= 20 /\ Len(ret.out.civics) <= 20
        /\ Len(ret.out.wonders) <= 15 /\ Len(ret.out.greatPeople) <= 15
        /\ \A list \in {ret.out.technologies, ret.out.civics, ret.out.wonders,
                         ret.out.greatPeople, ret.out.cityStates, ret.out.playerCities} :
              noRepeats(list)
        /\ \A k \in 1..Len(ret.out.wonders) :
              \E w \in 1..Len(WONDER_NAMES) :
                  startsWith(ret.out.wonders[k], formatEnumValue(Codes(WONDER_NAMES[w])))
        /\ \A c \in ResearchCases :
              saveFile = c.file =>
                  /\ firstKept(researchKeys(c.techs, "TECH_"), 20, ret.out.technologies)
                  /\ firstKept(researchKeys(c.civics, "CIVIC_"), 20, ret.out.civics)
                  /\ firstKept(wonderKeys(c.buildings), 15, ret.out.wonders)
                  /\ firstKept(personKeys(c.people), 15, ret.out.greatPeople)

\* C15: exactly one CivInfo per game is marked isHuman.  For every save whose
\* header yields at least one full civilization, after parseSaveFile exactly
\* one CivInfo of the roster (the player civ plus otherCivs) has isHuman =
\* true, and it is the civ reported as the player, whether the player was
\* identified from city names or by the first-civ fallback.
C15_ExactlyOneHuman ==
    (ret.fn = "parseSaveFile" /\ ret.out.kind = "value") =>
        Let(rosterOf(saveFile.content), LAMBDA civs :
            civs.playerCiv.kind = "value" =>
                /\ ret.out.data.civilization = civs.playerCiv.data.civilization
                /\ ret.out.data.otherCivs = civs.otherCivs
                /\ civs.playerCiv.data.isHuman
                /\ humansOf(civs.otherCivs) = 0)

\* The civilizations of the entries of a header, each once, in the order in
\* which the header first lists them, as they are displayed.
headerRoster(entries) ==
    Let(SelectSeq([k \in 1..Len(entries) |-> k],
                  LAMBDA k : \A j \in 1..(k - 1) : entries[j].civ # entries[k].civ),
        LAMBDA firsts : [k \in 1..Len(firsts) |-> formatEnumValue(Codes(entries[firsts[k]].civ))])

\* The segment of the save names a city of Vietnam and the header lists
\* Vietnam: the cities identify a civ of the roster.
citiesIdentify(c) ==
    /\ indexOf(c.plain, Codes("HUE"), 0) # -1
    /\ \E k \in 1..Len(c.entries) : c.entries[k].civ = "VIETNAM"

namesOf(civs) == [k \in 1..Len(civs) |-> civs[k].civilization]

\* C30: the roster of the GameState is a partition of the roster of the
\* header: the civilization reported as the player is one civ of the header
\* roster, otherCivs holds every other header civ exactly once, in header
\* order, and never the player, no civ is in the roster twice, and when the
\* city names identify no civ of the roster the player is the first civ the
\* header lists.
C30_RosterPartition ==
    \A c \in RosterCases :
        (ret.fn = "parseSaveFile" /\ saveFile = c.file) =>
            /\ ret.out.kind = "value"
            /\ Let(headerRoster(c.entries), LAMBDA roster :
               Let(ret.out.data.civilization, LAMBDA player :
                   /\ \E k \in 1..Len(roster) : roster[k] = player
                   /\ namesOf(ret.out.data.otherCivs)
                         = SelectSeq(roster, LAMBDA name : name # player)
                   /\ noRepeats(<<player>> \o namesOf(ret.out.data.otherCivs))
                   /\ Len(ret.out.data.otherCivs) = Len(roster) - 1
                   /\ (citiesIdentify(c) => player = Codes("Vietnam"))
                   /\ (~citiesIdentify(c) => player = roster[1])))

\* Vietnam, identified by the city of Hue, stands between Georgia and Rome in
\* the header: it is the player, and the others keep their order.
C30_Witness ==
    /\ ret.fn = "parseSaveFile"
    /\ \E c \in RosterCases :
          /\ saveFile = c.file
          /\ citiesIdentify(c)
          /\ headerRoster(c.entries) = <<Codes("Georgia"), Codes("Vietnam"), Codes("Rome")>>
          /\ ret.out.data.civilization = Codes("Vietnam")
          /\ namesOf(ret.out.data.otherCivs) = <<Codes("Georgia"), Codes("Rome")>>

----------------------------------------------------------------------------
(* Strings read from the CSV logs (TLA+ strings) and the JavaScript string *)
(* functions the loaders use on them.                                      *)

charAt(s, i) == IF i >= 1 /\ i <= Len(s) THEN SubSeq(s, i, i) ELSE ""

\* The characters of s at the places from..to that s has.
clipped(s, from, to) == SubSeq(s, Max(from, 1), Min(to, Len(s)))

isSpace(c) == c \in {" ", "\n", "\r", "\t"}
isDigitChar(c) == charIndex(DecimalDigits, c) > 0
isWordChar(c) ==
    \/ charIndex(UpperCaseLetters, c) > 0
    \/ charIndex(LowerCaseLetters, c) > 0
    \/ charIndex(DecimalDigits, c) > 0
    \/ c = "_"

\* The first index >= i that holds no character satisfying Is (Len(s)+1 if none).
runEnd(s, i, Is(_)) ==
    LET RECURSIVE go(_)
        go(k) == IF k <= Len(s) /\ Is(charAt(s, k)) THEN go(k + 1) ELSE k
    IN  go(i)

\* The last index <= i that holds no whitespace (0 if none).
RECURSIVE lastInk(_, _)
lastInk(s, i) == IF i >= 1 /\ isSpace(charAt(s, i)) THEN lastInk(s, i - 1) ELSE i

\* s.trim()
trim(s) == SubSeq(s, runEnd(s, 1, isSpace), lastInk(s, Len(s)))

\* The k-th smallest element of a set of numbers.
kth(S, k) == CHOOSE x \in S : Cardinality({y \in S : y < x}) = k - 1

\* s.split(sep) for a one-character separator.
split(s, sep) ==
    Let({i \in 1..Len(s) : charAt(s, i) = sep}, LAMBDA seps :
    Let(Cardinality(seps), LAMBDA n :
    Let([k \in 0..(n + 1) |-> IF k = 0 THEN 0 ELSE IF k > n THEN Len(s) + 1 ELSE kth(seps, k)],
        LAMBDA cut : [k \in 1..(n + 1) |-> SubSeq(s, cut[k - 1] + 1, cut[k] - 1)])))

\* line.split(',').map(v => v.trim())
cells(line) == Let(split(line, ","), LAMBDA parts : [k \in 1..Len(parts) |-> trim(parts[k])])

\* s.indexOf(pat), 1-based; 0 when pat does not occur.
strIndexOf(s, pat) ==
    Let({i \in 1..(Len(s) - Len(pat) + 1) : SubSeq(s, i, i + Len(pat) - 1) = pat},
        LAMBDA hits : IF hits = {} THEN 0 ELSE SetMin(hits))

\* s.replace(pat, ''): the first occurrence of a literal pattern removed.
strRemove(s, pat) ==
    Let(strIndexOf(s, pat), LAMBDA i :
        IF i = 0 THEN s ELSE SubSeq(s, 1, i - 1) \o SubSeq(s, i + Len(pat), Len(s)))

\* NaN, as a number no input holds.  NaN is unequal to everything under ===.
NaN == -(2 ^ 30)
strictEquals(a, b) == a # NaN /\ b # NaN /\ a = b
plus(a, b) == IF a = NaN \/ b = NaN THEN NaN ELSE a + b
minus(a, b) == IF a = NaN \/ b = NaN THEN NaN ELSE a - b

\* The value of a run of decimal digits.
RECURSIVE digitsValue(_)
digitsValue(digits) ==
    IF digits = "" THEN 0
    ELSE 10 * digitsValue(SubSeq(digits, 1, Len(digits) - 1))
         + (charIndex(DecimalDigits, charAt(digits, Len(digits))) - 1)

\* parseInt(str, 10): leading whitespace, an optional sign, then the longest
\* run of digits; NaN when there is no digit.
parseInt(str) ==
    Let(SubSeq(str, runEnd(str, 1, isSpace), Len(str)), LAMBDA s :
    Let(IF s # "" /\ charAt(s, 1) \in {"-", "+"} THEN 2 ELSE 1, LAMBDA d :
    Let(runEnd(s, d, isDigitChar), LAMBDA e :
        IF e = d THEN NaN
        ELSE IF charAt(s, 1) = "-" THEN 0 - digitsValue(SubSeq(s, d, e - 1))
        ELSE digitsValue(SubSeq(s, d, e - 1)))))

\* w.charAt(0).toUpperCase() + w.slice(1).toLowerCase()
upperChar(c) ==
    Let(charIndex(LowerCaseLetters, c), LAMBDA i :
        IF i > 0 THEN charAt(UpperCaseLetters, i) ELSE c)
lowerChar(c) ==
    Let(charIndex(UpperCaseLetters, c), LAMBDA i :
        IF i > 0 THEN charAt(LowerCaseLetters, i) ELSE c)

RECURSIVE lowerCase(_)
lowerCase(w) == IF w = "" THEN "" ELSE lowerChar(charAt(w, 1)) \o lowerCase(SubSeq(w, 2, Len(w)))

capitalized(w) == IF w = "" THEN "" ELSE upperChar(charAt(w, 1)) \o lowerCase(SubSeq(w, 2, Len(w)))

RECURSIVE joinWords(_)
joinWords(words) ==
    IF Len(words) = 0 THEN ""
    ELSE IF Len(words) = 1 THEN words[1]
    ELSE words[1] \o " " \o joinWords(Tail(words))

\* rawName.split('_').map(capitalise).join(' ')
formatCivName(rawName) ==
    Let(split(rawName, "_"), LAMBDA words :
        joinWords([k \in 1..Len(words) |-> capitalized(words[k])]))

\* content.trim().split('\n'), header line dropped, every line split in cells.
dataRows(content) ==
    Let(split(trim(content), "\n"), LAMBDA lines :
        [i \in 1..(Len(lines) - 1) |-> cells(lines[i + 1])])

----------------------------------------------------------------------------
(* The history parser (src/TOOLS.md, history-parser.ts).                   *)

STATS_COLUMNS == 20
SCORES_COLUMNS == 9

\* One RawPlayerStats of a row of at least 20 cells.
rawPlayerStats(values) ==
    [turn            |-> parseInt(values[1]),
     civilization    |-> strRemove(values[2], "CIVILIZATION_"),
     numCities       |-> parseInt(values[3]),
     population      |-> parseInt(values[4]),
     techs           |-> parseInt(values[5]),
     civics          |-> parseInt(values[6]),
     landUnits       |-> parseInt(values[7]),
     corps           |-> parseInt(values[8]),
     armies          |-> parseInt(values[9]),
     navalUnits      |-> parseInt(values[10]),
     tilesOwned      |-> parseInt(values[11]),
     tilesImproved   |-> parseInt(values[12]),
     goldBalance     |-> parseInt(values[13]),
     faithBalance    |-> parseInt(values[14]),
     scienceYield    |-> parseInt(values[15]),
     cultureYield    |-> parseInt(values[16]),
     goldYield       |-> parseInt(values[17]),
     faithYield      |-> parseInt(values[18]),
     productionYield |-> parseInt(values[19]),
     foodYield       |-> parseInt(values[20])]

wideEnough(n, values) == Len(values) >= n
hasStatsColumns(values) == wideEnough(STATS_COLUMNS, values)
hasScoresColumns(values) == wideEnough(SCORES_COLUMNS, values)

parsePlayerStatsCSV(file) ==
    IF file = NoFile THEN << >>
    ELSE Let(SelectSeq(dataRows(file), hasStatsColumns), LAMBDA rows :
             [k \in 1..Len(rows) |-> rawPlayerStats(rows[k])])

rawPlayerScore(values) ==
    [turn        |-> parseInt(values[1]),
     playerId    |-> parseInt(values[2]),
     score       |-> parseInt(values[3]),
     civics      |-> parseInt(values[4]),
     empire      |-> parseInt(values[5]),
     greatPeople |-> parseInt(values[6]),
     religion    |-> parseInt(values[7]),
     tech        |-> parseInt(values[8]),
     wonder      |-> parseInt(values[9])]

parsePlayerScoresCSV(file) ==
    IF file = NoFile THEN << >>
    ELSE Let(SelectSeq(dataRows(file), hasScoresColumns), LAMBDA rows :
             [k \in 1..Len(rows) |-> rawPlayerScore(rows[k])])

\* CIV_DISPLAY_NAMES, the entries of the civilizations of the log files below;
\* a name without entry is formatted from its raw form.
CIV_DISPLAY_NAMES ==
    [EGYPT       |-> [civ |-> "Egypt",       leader |-> "Cleopatra"],
     GEORGIA     |-> [civ |-> "Georgia",     leader |-> "Tamar"],
     PERSIA      |-> [civ |-> "Persia",      leader |-> "Cyrus"],
     OTTOMAN     |-> [civ |-> "Ottoman Empire", leader |-> "Suleiman"],
     ROME        |-> [civ |-> "Rome",        leader |-> "Trajan"],
     FREE_CITIES |-> [civ |-> "Free Cities", leader |-> "Free Cities"],
     KABUL       |-> [civ |-> "Kabul",       leader |-> "Kabul"],
     GENEVA      |-> [civ |-> "Geneva",      leader |-> "Geneva"],
     HONG_KONG   |-> [civ |-> "Hong Kong",   leader |-> "Hong Kong"],
     TORONTO     |-> [civ |-> "Toronto",     leader |-> "Toronto"]]

\* The keys CIV_DISPLAY_NAMES lists under its heading "City-states".
DISPLAY_CITY_STATES ==
    {"TARUGA", "AKKAD", "NGAZARGAMU", "BRUSSELS", "BABYLON", "LA_VENTA", "HUNZA",
     "HATTUSA", "KABUL", "SINGAPORE", "GRANADA", "CAHOKIA", "ZANZIBAR", "MITLA",
     "JOHANNESBURG", "MUSCAT", "GENEVA", "VALLETTA", "BUENOS_AIRES", "ANTANANARIVO",
     "KUMASI", "VILNIUS", "BOLOGNA", "FEZ", "JERUSALEM", "KANDY", "YEREVAN",
     "VATICAN_CITY", "AUCKLAND", "NAZCA", "SAMARKAND", "ANTIOCH", "BANDAR_BRUNEI",
     "HONG_KONG", "AMSTERDAM", "STOCKHOLM", "MOHENJO_DARO", "NAN_MADOL", "PRESLAV",
     "RAPA_NUI", "TORONTO", "ARMAGH", "CHINGUETTI", "LAHORE"}

getCivDisplayInfo(rawName) ==
    IF rawName \in DOMAIN CIV_DISPLAY_NAMES THEN CIV_DISPLAY_NAMES[rawName]
    ELSE [civ |-> formatCivName(rawName), leader |-> formatCivName(rawName)]

CITY_STATES ==
    {"TARUGA", "AKKAD", "NGAZARGAMU", "BRUSSELS", "BABYLON", "LA_VENTA", "HUNZA",
     "HATTUSA", "KABUL", "SINGAPORE", "GRANADA", "CAHOKIA", "ZANZIBAR", "MITLA",
     "JOHANNESBURG", "MUSCAT", "GENEVA", "VALLETTA", "BUENOS_AIRES", "ANTANANARIVO",
     "KUMASI", "VILNIUS", "BOLOGNA", "FEZ", "JERUSALEM", "KANDY", "YEREVAN",
     "VATICAN_CITY", "AUCKLAND", "NAZCA", "SAMARKAND", "ANTIOCH", "BANDAR_BRUNEI"}

isCityState(civName) == civName \in CITY_STATES \/ civName = "FREE_CITIES"

\* scoresByTurn.get(turn)?.get(index) ?? 0: the score of the last scores row
\* with this turn and player id (Map keys: NaN equals NaN), 0 when none.
scoreFor(rawScores, turn, index) ==
    Let({k \in 1..Len(rawScores) : rawScores[k].turn = turn /\ rawScores[k].playerId = index},
        LAMBDA rows : IF rows = {} THEN 0 ELSE rawScores[SetMax(rows)].score)

civStatistics(s, score) ==
    Let(getCivDisplayInfo(s.civilization), LAMBDA displayInfo :
        [civilization     |-> displayInfo.civ,
         leader           |-> displayInfo.leader,
         rawCivName       |-> s.civilization,
         isCityState      |-> isCityState(s.civilization),
         turn             |-> s.turn,
         score            |-> score,
         cities           |-> s.numCities,
         population       |-> s.population,
         sciencePerTurn   |-> s.scienceYield,
         culturePerTurn   |-> s.cultureYield,
         goldPerTurn      |-> s.goldYield,
         faithPerTurn     |-> s.faithYield,
         landUnits        |-> plus(plus(s.landUnits, s.corps), s.armies),
         navalUnits       |-> s.navalUnits,
         goldBalance      |-> s.goldBalance,
         faithBalance     |-> s.faithBalance,
         techsResearched  |-> s.techs,
         civicsResearched |-> s.civics,
         tilesOwned       |-> s.tilesOwned,
         tilesImproved    |-> s.tilesImproved])

\* array.sort(compare), a stable sort: After(e, x) says compare(e, x) > 0.
sort(list, After(_, _)) ==
    LET insert(sorted, x) ==
            Let(Cardinality({j \in 1..Len(sorted) :
                                \A i \in j..Len(sorted) : After(sorted[i], x)}),
                LAMBDA k : SubSeq(sorted, 1, Len(sorted) - k) \o <<x>>
                           \o SubSeq(sorted, Len(sorted) - k + 1, Len(sorted)))
        RECURSIVE go(_)
        go(n) == IF n = 0 THEN << >> ELSE insert(go(n - 1), list[n])
    IN  go(Len(list))

\* a.turn - b.turn > 0
laterTurn(a, b) == a.turn # NaN /\ b.turn # NaN /\ a.turn > b.turn

\* The TurnData of one turn: its rows in file order, each with the score found
\* under its position in the turn.
turnData(rawStats, rawScores, turn) ==
    Let(SelectSeq(rawStats, LAMBDA r : r.turn = turn), LAMBDA stats :
        [turn     |-> turn,
         civStats |-> [index \in 1..Len(stats) |->
                          civStatistics(stats[index], scoreFor(rawScores, turn, index - 1))]])

parseGameHistory(stats, scores) ==
    Let(parsePlayerStatsCSV(stats), LAMBDA rawStats :
        IF rawStats = << >> THEN Null
        ELSE
    Let(parsePlayerScoresCSV(scores), LAMBDA rawScores :
    Let(unique([k \in 1..Len(rawStats) |-> rawStats[k].turn]), LAMBDA turnMap :
    Let(unique([k \in 1..Len(rawStats) |-> rawStats[k].civilization]), LAMBDA civSet :
        [kind |-> "value",
         data |-> [turns |-> sort([t \in 1..Len(turnMap) |->
                                      turnData(rawStats, rawScores, turnMap[t])], laterTurn),
                   civilizations |-> [c \in 1..Len(civSet) |->
                                         getCivDisplayInfo(civSet[c]).civ]]]))))

isMajor(s) == ~s.isCityState

getLatestTurnStatsFullCivsOnly(stats, scores) ==
    IF stats = NoFile THEN Null
    ELSE
    Let(parseGameHistory(stats, scores), LAMBDA history :
        IF history = Null \/ Len(history.data.turns) = 0 THEN Null
        ELSE
    Let(history.data.turns, LAMBDA turns :
    Let({i \in 1..Len(turns) : Len(SelectSeq(turns[i].civStats, isMajor)) > 1}, LAMBDA complete :
        [kind |-> "value",
         data |-> SelectSeq(turns[IF complete = {} THEN Len(turns) ELSE SetMax(complete)].civStats,
                            isMajor)])))

\* A comparison that also puts equal tech counts in the other order.
fewerOrEqualTechs(a, b) == a.techsResearched # NaN /\ b.techsResearched # NaN
                           /\ b.techsResearched >= a.techsResearched

\* b.x - a.x > 0 for the four rankings
fewerTechs(a, b) == a.techsResearched # NaN /\ b.techsResearched # NaN
                    /\ b.techsResearched > a.techsResearched
lessCulture(a, b) == a.culturePerTurn # NaN /\ b.culturePerTurn # NaN
                     /\ b.culturePerTurn > a.culturePerTurn
militaryStrength(s) == plus(s.landUnits, s.navalUnits)
weaker(a, b) == militaryStrength(a) # NaN /\ militaryStrength(b) # NaN
                /\ militaryStrength(b) > militaryStrength(a)
lowerScore(a, b) == a.score # NaN /\ b.score # NaN /\ b.score > a.score

\* ranking.findIndex(s => s.civilization === name) + 1
position(ranking, name) ==
    Let({i \in 1..Len(ranking) : ranking[i].civilization = name}, LAMBDA found :
        IF found = {} THEN 0 ELSE SetMin(found))

victoryProgress(stat, byScience, byCulture, byMilitary, byScore) ==
    [civilization |-> stat.civilization,
     leader       |-> stat.leader,
     science      |-> [position        |-> position(byScience, stat.civilization),
                       techsResearched |-> stat.techsResearched,
                       sciencePerTurn  |-> stat.sciencePerTurn],
     culture      |-> [position         |-> position(byCulture, stat.civilization),
                       domesticTourists |-> 0,
                       visitingTourists |-> 0,
                       culturePerTurn   |-> stat.culturePerTurn],
     domination   |-> [position           |-> position(byMilitary, stat.civilization),
                       militaryStrength   |-> militaryStrength(stat),
                       capitalsControlled |-> 0],
     diplomatic   |-> [position |-> 0, diplomaticVictoryPoints |-> 0],
     religion     |-> [position |-> 0, citiesFollowingReligion |-> 0],
     score        |-> [position   |-> position(byScore, stat.civilization),
                       totalScore |-> stat.score]]

calculateVictoryProgress(stats) ==
    IF stats = Null \/ Len(stats.data) = 0 THEN << >>
    ELSE
    Let(SelectSeq(stats.data, isMajor), LAMBDA majorCivs :
    Let(sort(majorCivs, fewerTechs), LAMBDA byScience :
    Let(sort(majorCivs, lessCulture), LAMBDA byCulture :
    Let(sort(majorCivs, weaker), LAMBDA byMilitary :
    Let(sort(majorCivs, lowerScore), LAMBDA byScore :
        [k \in 1..Len(majorCivs) |->
            victoryProgress(majorCivs[k], byScience, byCulture, byMilitary, byScore)])))))

\* Math.round(((end - start) / start) * 100) for start > 0, in exact arithmetic
\* (halves round up).  The double arithmetic of the code gives the same number
\* except for some quotients that end in one half and are no binary fraction
\* (start 40, end 63: 57.49999999999999), which no input of the model produces.
percentOf(start, end) ==
    IF end = NaN THEN NaN ELSE (200 * (end - start) + start) \div (2 * start)

\* calcChange without the guard on start: x / 0 is Infinity, 0 / 0 is NaN.
calcChangeUnguarded(start, end) ==
    [start         |-> start,
     end           |-> end,
     change        |-> minus(end, start),
     percentChange |-> IF start = NaN \/ end = NaN \/ (start = 0 /\ end = 0) THEN NaN
                       ELSE IF start = 0 THEN (IF end > 0 THEN 2 ^ 30 ELSE 1 - 2 ^ 30)
                       ELSE IF start > 0 THEN percentOf(start, end)
                       ELSE (200 * (start - end) - start) \div (0 - 2 * start)]

calcChange(start, end) ==
    [start         |-> start,
     end           |-> end,
     change        |-> minus(end, start),
     percentChange |-> IF start # NaN /\ start > 0 THEN percentOf(start, end) ELSE 0]

plainChange(start, end) == [start |-> start, end |-> end, change |-> minus(end, start)]

civTrend(civ, actualStartTurn, actualEndTurn, startStats, endStats) ==
    [civilization  |-> civ.civilization,
     leader        |-> civ.leader,
     turnsAnalyzed |-> minus(actualEndTurn.turn, actualStartTurn.turn),
     startTurn     |-> actualStartTurn.turn,
     endTurn       |-> actualEndTurn.turn,
     score         |-> calcChange(startStats.score, endStats.score),
     science       |-> calcChange(startStats.sciencePerTurn, endStats.sciencePerTurn),
     culture       |-> calcChange(startStats.culturePerTurn, endStats.culturePerTurn),
     gold          |-> calcChange(startStats.goldPerTurn, endStats.goldPerTurn),
     military      |-> calcChange(militaryStrength(startStats), militaryStrength(endStats)),
     cities        |-> plainChange(startStats.cities, endStats.cities),
     territory     |-> calcChange(startStats.tilesOwned, endStats.tilesOwned),
     techs         |-> plainChange(startStats.techsResearched, endStats.techsResearched)]

\* turn.civStats.find(s => s.civilization === name && !s.isCityState), as the
\* list of the entries found first (empty or one entry).
findMajor(turn, name) ==
    Let(SelectSeq(turn.civStats, LAMBDA s : s.civilization = name /\ ~s.isCityState),
        LAMBDA found : SubSeq(found, 1, Min(1, Len(found))))

\* Math.max(1, endTurnNum - turnsBack)
startTurn(endTurnNum, turnsBack) ==
    IF endTurnNum = NaN THEN NaN ELSE Max(1, endTurnNum - turnsBack)

\* A window without its lower end.
upToLatest(t, startTurnNum, endTurnNum) == t.turn # NaN /\ t.turn <= endTurnNum

inWindow(t, startTurnNum, endTurnNum) ==
    t.turn # NaN /\ startTurnNum # NaN /\ t.turn >= startTurnNum /\ t.turn <= endTurnNum

\* if (!startStats || !endStats) continue; -- the entries of majorCivs that
\* reach trends.push.
atBothEndpoints(majorCivs, actualStartTurn, actualEndTurn) ==
    SelectSeq(majorCivs, LAMBDA civ :
                  findMajor(actualStartTurn, civ.civilization) # << >>
                  /\ findMajor(actualEndTurn, civ.civilization) # << >>)

analyzeTrends(stats, scores, turnsBack) ==
    Let(parseGameHistory(stats, scores), LAMBDA history :
        IF history = Null \/ Len(history.data.turns) < 2 THEN Null
        ELSE
    Let(history.data.turns[Len(history.data.turns)], LAMBDA latestTurn :
    Let(SelectSeq(latestTurn.civStats, isMajor), LAMBDA majorCivs :
        IF Len(majorCivs) = 0 THEN Null
        ELSE
    Let(SelectSeq(history.data.turns,
                  LAMBDA t : inWindow(t, startTurn(latestTurn.turn, turnsBack), latestTurn.turn)),
        LAMBDA relevantTurns :
        IF Len(relevantTurns) < 2 THEN Null
        ELSE
    Let(relevantTurns[1], LAMBDA actualStartTurn :
    Let(relevantTurns[Len(relevantTurns)], LAMBDA actualEndTurn :
    Let(atBothEndpoints(majorCivs, actualStartTurn, actualEndTurn), LAMBDA kept :
        [kind |-> "value",
         data |-> [k \in 1..Len(kept) |->
                      civTrend(kept[k], actualStartTurn, actualEndTurn,
                               findMajor(actualStartTurn, kept[k].civilization)[1],
                               findMajor(actualEndTurn, kept[k].civilization)[1])]])))))))

getLatestTurnStats(stats, scores) ==
    Let(parseGameHistory(stats, scores), LAMBDA history :
        IF history = Null \/ Len(history.data.turns) = 0 THEN Null
        ELSE [kind |-> "value", data |-> history.data.turns[Len(history.data.turns)].civStats])

----------------------------------------------------------------------------
(* Player ids and the diplomacy log (src/src/index.ts).                    *)

hasTwoCells(values) == wideEnough(2, values)

\* The names of latestTurn in insertion order: the name at place k has id k - 1.
firstSeen(rows) ==
    unique([k \in 1..Len(rows) |-> strRemove(rows[k][2], "CIVILIZATION_")])

\* The id map with every name under the number of its first row.
buildPlayerIdMapByRow(file) ==
    IF file = NoFile THEN << >>
    ELSE Let(SelectSeq(dataRows(file), hasTwoCells), LAMBDA rows :
         Let([k \in 1..Len(rows) |-> strRemove(rows[k][2], "CIVILIZATION_")], LAMBDA names :
             [id \in {k - 1 : k \in {j \in 1..Len(names) :
                                        \A i \in 1..(j - 1) : names[i] # names[j]}}
                 |-> names[id + 1]]))

\* Map<number, string> as the function from the ids to the names.
buildPlayerIdMap(file) ==
    IF file = NoFile THEN << >>
    ELSE Let(firstSeen(SelectSeq(dataRows(file), hasTwoCells)), LAMBDA latestTurn :
             [playerId \in 0..(Len(latestTurn) - 1) |-> latestTurn[playerId + 1]])

numberText(n) == IF n = NaN THEN "NaN" ELSE ToString(n)

\* playerMap.get(playerId) || `Player ${playerId}`
getCivName(playerId, playerMap) ==
    IF playerId \in DOMAIN playerMap /\ playerMap[playerId] # "" THEN playerMap[playerId]
    ELSE "Player " \o numberText(playerId)

isDotDigit(c) == isDigitChar(c) \/ c = "."
DIPLO_STATE == ":DIPLO_STATE_"
NoMatch == [found |-> FALSE]

\* cellValue.match(/(-?\d+):DIPLO_STATE_(\w+)/): the leftmost match.
matchState(cellValue) ==
    Let({p \in 2..Len(cellValue) :
            /\ clipped(cellValue, p, p + Len(DIPLO_STATE) - 1) = DIPLO_STATE
            /\ isDigitChar(charAt(cellValue, p - 1))
            /\ isWordChar(charAt(cellValue, p + Len(DIPLO_STATE)))}, LAMBDA colons :
        IF colons = {} THEN NoMatch
        ELSE
    Let(SetMin(colons), LAMBDA p :
    Let(SetMin({i \in 1..(p - 1) : \A j \in i..(p - 1) : isDigitChar(charAt(cellValue, j))}),
        LAMBDA d :
        [found |-> TRUE,
         score |-> SubSeq(cellValue, IF d > 1 /\ charAt(cellValue, d - 1) = "-" THEN d - 1 ELSE d,
                          p - 1),
         state |-> SubSeq(cellValue, p + Len(DIPLO_STATE),
                          runEnd(cellValue, p + Len(DIPLO_STATE), isWordChar) - 1)])))

\* cellValue.match(/([\d.]+):(\d+):([\d.]+)/): the leftmost match.
matchThreatTrust(cellValue) ==
    Let({i \in 1..Len(cellValue) :
            /\ isDotDigit(charAt(cellValue, i))
            /\ (i = 1 \/ ~isDotDigit(charAt(cellValue, i - 1)))
            /\ Let(runEnd(cellValue, i, isDotDigit), LAMBDA e :
                   /\ charAt(cellValue, e) = ":"
                   /\ Let(runEnd(cellValue, e + 1, isDigitChar), LAMBDA f :
                          /\ f > e + 1
                          /\ charAt(cellValue, f) = ":"
                          /\ isDotDigit(charAt(cellValue, f + 1))))}, LAMBDA starts :
        IF starts = {} THEN NoMatch
        ELSE
    Let(SetMin(starts), LAMBDA i :
    Let(runEnd(cellValue, i, isDotDigit), LAMBDA e :
    Let(runEnd(cellValue, e + 1, isDigitChar), LAMBDA f :
        [found  |-> TRUE,
         threat |-> SubSeq(cellValue, i, e - 1),
         trust  |-> SubSeq(cellValue, f + 1, runEnd(cellValue, f + 1, isDotDigit) - 1)]))))

\* A number with a fraction: its whole part and its fraction digits without
\* trailing zeros.
Float(whole, frac) == [whole |-> whole, frac |-> frac]
NaNFloat == [whole |-> NaN, frac |-> ""]

RECURSIVE stripZeros(_)
stripZeros(digits) ==
    IF digits # "" /\ charAt(digits, Len(digits)) = "0"
    THEN stripZeros(SubSeq(digits, 1, Len(digits) - 1)) ELSE digits

\* parseFloat of a run of digits and dots: digits, then at most one dot with
\* digits; NaN when no digit is read.
parseFloat(str) ==
    Let(runEnd(str, 1, isDigitChar), LAMBDA e :
    Let(IF charAt(str, e) = "." THEN runEnd(str, e + 1, isDigitChar) ELSE e, LAMBDA f :
        IF e = 1 /\ f <= e + 1 THEN NaNFloat
        ELSE Float(digitsValue(SubSeq(str, 1, e - 1)), stripZeros(SubSeq(str, e + 1, f - 1)))))

THREAT_AND_TRUST == "Threat and Trust"
FIRST_PLAYER_COLUMN == 4
ZERO == Float(0, "")

\* The lists of a list of lists, one after the other.
RECURSIVE flatten(_)
flatten(lists) ==
    IF Len(lists) = 0 THEN << >>
    ELSE flatten(SubSeq(lists, 1, Len(lists) - 1)) \o lists[Len(lists)]

\* The 1-based places of the cells of parts from column 4 on that pass Keep.
playerColumns(parts, Keep(_)) ==
    SelectSeq([c \in 1..(Len(parts) - FIRST_PLAYER_COLUMN) |-> c + FIRST_PLAYER_COLUMN],
              LAMBDA col : Keep(col))

\* The relation read backwards: the cell of partner B in a row of A taken as
\* the edge from B to A.
mirroredRelation(fromPlayerId, toPlayerId, match, playerMap) ==
    [fromCiv      |-> formatCivName(getCivName(toPlayerId, playerMap)),
     toCiv        |-> formatCivName(getCivName(fromPlayerId, playerMap)),
     fromPlayerId |-> toPlayerId,
     toPlayerId   |-> fromPlayerId,
     state        |-> match.state,
     score        |-> parseInt(match.score),
     threat       |-> ZERO,
     trust        |-> ZERO]

diplomaticRelation(fromPlayerId, toPlayerId, match, playerMap) ==
    [fromCiv      |-> formatCivName(getCivName(fromPlayerId, playerMap)),
     toCiv        |-> formatCivName(getCivName(toPlayerId, playerMap)),
     fromPlayerId |-> fromPlayerId,
     toPlayerId   |-> toPlayerId,
     state        |-> match.state,
     score        |-> parseInt(match.score),
     threat       |-> ZERO,
     trust        |-> ZERO]

\* The relations one row pushes in the first pass; skipSelf is the test of
\* line 1046.
relationsOfRow(parts, playerMap, skipSelf) ==
    IF Len(parts) < 4 \/ parts[3] = THREAT_AND_TRUST THEN << >>
    ELSE
    Let(parseInt(parts[2]), LAMBDA fromPlayerId :
    Let(playerColumns(parts, LAMBDA col :
            /\ matchState(parts[col]).found
            /\ ~(skipSelf /\ strictEquals(fromPlayerId, col - 1 - FIRST_PLAYER_COLUMN))),
        LAMBDA cols :
        [k \in 1..Len(cols) |->
            diplomaticRelation(fromPlayerId, cols[k] - 1 - FIRST_PLAYER_COLUMN,
                               matchState(parts[cols[k]]), playerMap)]))

\* The updates one "Threat and Trust" row makes in the second pass.
updatesOfRow(parts) ==
    IF Len(parts) < 4 \/ parts[3] # THREAT_AND_TRUST THEN << >>
    ELSE
    Let(playerColumns(parts, LAMBDA col : matchThreatTrust(parts[col]).found), LAMBDA cols :
        [k \in 1..Len(cols) |->
            [fromPlayerId |-> parseInt(parts[2]),
             toPlayerId   |-> cols[k] - 1 - FIRST_PLAYER_COLUMN,
             threat       |-> parseFloat(matchThreatTrust(parts[cols[k]]).threat),
             trust        |-> parseFloat(matchThreatTrust(parts[cols[k]]).trust)]])

\* relations.find(r => r.fromPlayerId === from && r.toPlayerId === to), as a
\* place in relations (0 if none).
findRelation(relations, update) ==
    Let({k \in 1..Len(relations) :
            /\ strictEquals(relations[k].fromPlayerId, update.fromPlayerId)
            /\ strictEquals(relations[k].toPlayerId, update.toPlayerId)}, LAMBDA found :
        IF found = {} THEN 0 ELSE SetMin(found))

\* relations after the updates, each written to the relation it finds.
applyUpdates(relations, updates) ==
    [k \in 1..Len(relations) |->
        Let({u \in 1..Len(updates) : findRelation(relations, updates[u]) = k}, LAMBDA mine :
            IF mine = {} THEN relations[k]
            ELSE [relations[k] EXCEPT !.threat = updates[SetMax(mine)].threat,
                                      !.trust = updates[SetMax(mine)].trust])]

diplomacyPasses(diplomacy, stats, skipSelf) ==
    IF diplomacy = NoFile THEN << >>
    ELSE
    Let(buildPlayerIdMap(stats), LAMBDA playerMap :
    Let(dataRows(diplomacy), LAMBDA rows :
        applyUpdates(flatten([i \in 1..Len(rows) |-> relationsOfRow(rows[i], playerMap, skipSelf)]),
                     flatten([i \in 1..Len(rows) |-> updatesOfRow(rows[i])]))))

\* parseDiplomacy without the test of line 1046.
parseDiplomacyWithSelf(diplomacy, stats) == diplomacyPasses(diplomacy, stats, FALSE)

parseDiplomacy(diplomacy, stats) == diplomacyPasses(diplomacy, stats, TRUE)

----------------------------------------------------------------------------
(* The other log files (src/src/index.ts): every loader tests that its     *)
(* file exists, reads it, drops the header line and the rows with too few  *)
(* cells, and builds one record per row it keeps.                          *)

\* A test of existence that every file passes.
everyFileExists(file) == TRUE

existsSync(file) == file # NoFile

\* readFileSync(filePath, 'utf-8'): the text, or the error of a missing file.
readFileSync(file) ==
    IF file = NoFile THEN Throw("Error", Codes("ENOENT: no such file or directory"))
    ELSE [kind |-> "value", data |-> file]

Value(data) == [kind |-> "value", data |-> data]

\* A load that ends at the first row with too few cells.
loadRowsUntilShort(file, minColumns) ==
    IF file = NoFile THEN Value(<< >>)
    ELSE Let(dataRows(file), LAMBDA rows :
         Let({k \in 1..Len(rows) : Len(rows[k]) < minColumns}, LAMBDA short :
             Value(SubSeq(rows, 1, IF short = {} THEN Len(rows) ELSE SetMin(short) - 1))))

\* The rows a loader keeps: none when there is no file, the data rows with at
\* least minColumns cells when there is one, the error when the read fails.
\* (content.trim().split('\n') of a file without data rows gives one line and
\* the loader returns its empty result.)
loadRows(file, minColumns) ==
    IF ~existsSync(file) THEN Value(<< >>)
    ELSE Let(readFileSync(file), LAMBDA content :
             IF content.kind = "throw" THEN content
             ELSE Value(SelectSeq(dataRows(content.data),
                                  LAMBDA values : wideEnough(minColumns, values))))

\* name.replace(/^(UNIT_|BUILDING_|...)/, ''): the first alternative that
\* starts the name is removed.
ENUM_PREFIXES ==
    <<"UNIT_", "BUILDING_", "DISTRICT_", "PROJECT_", "TECH_", "CIVIC_",
      "GREAT_PERSON_INDIVIDUAL_", "GREAT_PERSON_CLASS_">>

removePrefix(s, prefix) == IF startsWith(s, prefix) THEN SubSeq(s, Len(prefix) + 1, Len(s)) ELSE s

formatEnumName(name) ==
    Let(SelectSeq(ENUM_PREFIXES, LAMBDA prefix : startsWith(name, prefix)), LAMBDA found :
        formatCivName(IF found = << >> THEN name ELSE removePrefix(name, found[1])))

formatCityName(locName) ==
    formatCivName(removePrefix(removePrefix(removePrefix(locName, "LOC_CITY_NAME_"),
                                            "LOC_CITY_"), "NAME_"))

NaNDecimal == [whole |-> NaN, frac |-> "", negative |-> FALSE]

\* parseFloat of a cell: an optional sign, then digits and a fraction.
parseDecimal(str) ==
    Let(IF str # "" /\ charAt(str, 1) \in {"-", "+"} THEN SubSeq(str, 2, Len(str)) ELSE str,
        LAMBDA digits :
    Let(parseFloat(digits), LAMBDA magnitude :
        IF magnitude = NaNFloat THEN NaNDecimal
        ELSE [whole |-> magnitude.whole, frac |-> magnitude.frac,
              negative |-> charAt(str, 1) = "-" /\ (magnitude.whole # 0 \/ magnitude.frac # "")]))

isNaN(number) == number = NaNDecimal

\* number || 0
orZero(number) == IF number = NaN THEN 0 ELSE number

\* parseFloat(cell) || 0
decimalOrZero(number) ==
    IF isNaN(number) \/ (number.whole = 0 /\ number.frac = "")
    THEN [whole |-> 0, frac |-> "", negative |-> FALSE] ELSE number

\* text || fallback
orElse(text, fallback) == IF text = "" THEN fallback ELSE text

MODIFIER_COLUMNS == 7
COOLDOWN_COLUMN == 9

diplomaticModifier(values, playerMap) ==
    [turn          |-> parseInt(values[1]),
     player        |-> formatCivName(getCivName(parseInt(values[2]), playerMap)),
     playerId      |-> parseInt(values[2]),
     opponent      |-> formatCivName(getCivName(parseInt(values[3]), playerMap)),
     opponentId    |-> parseInt(values[3]),
     modifier      |-> values[4],
     action        |-> values[5],
     value         |-> parseDecimal(values[6]),
     maxValue      |-> parseDecimal(values[7]),
     cooldownTurns |-> IF Len(values) > COOLDOWN_COLUMN THEN parseInt(values[COOLDOWN_COLUMN + 1])
                       ELSE 0]

\* The records of the rows, or the error of the read.
recordsOf(rows, Record(_)) ==
    IF rows.kind = "throw" THEN rows
    ELSE Value([k \in 1..Len(rows.data) |-> Record(rows.data[k])])

parseDiplomacyModifiers(file, stats) ==
    Let(buildPlayerIdMap(stats), LAMBDA playerMap :
        recordsOf(loadRows(file, MODIFIER_COLUMNS),
                  LAMBDA values : diplomaticModifier(values, playerMap)))

MILITARY_COLUMNS == 9

\* The explorer cell read in its first part only.
currentExplorersOnly(explorers) ==
    [current |-> orZero(parseInt(explorers)), desired |-> orZero(parseInt(explorers))]

\* values[5].split(':'): "current:desired"; a missing part reads as undefined
\* and gives NaN, that is 0.
explorerParts(explorers) ==
    Let(split(explorers, ":"), LAMBDA parts :
        [current |-> orZero(parseInt(parts[1])),
         desired |-> IF Len(parts) < 2 THEN 0 ELSE orZero(parseInt(parts[2]))])

militaryIntelligence(values, playerMap) ==
    [turn             |-> parseInt(values[1]),
     civilization     |-> formatCivName(getCivName(parseInt(values[2]), playerMap)),
     playerId         |-> parseInt(values[2]),
     regionalStrength |-> parseInt(values[3]),
     enemyStrength    |-> parseInt(values[4]),
     otherStrength    |-> parseInt(values[5]),
     combatDesire     |-> decimalOrZero(parseDecimal(values[9])),
     favoriteTech     |-> formatEnumName(orElse(values[8], "NO_TECH")),
     currentExplorers |-> explorerParts(values[6]).current,
     desiredExplorers |-> explorerParts(values[6]).desired]

parseMilitaryIntel(file, stats) ==
    Let(buildPlayerIdMap(stats), LAMBDA playerMap :
        recordsOf(loadRows(file, MILITARY_COLUMNS),
                  LAMBDA values : militaryIntelligence(values, playerMap)))

COMBAT_COLUMNS == 14

combatRecord(values, playerMap) ==
    [turn             |-> parseInt(values[1]),
     attackerCiv      |-> formatCivName(getCivName(parseInt(values[2]), playerMap)),
     defenderCiv      |-> formatCivName(getCivName(parseInt(values[3]), playerMap)),
     attackerId       |-> parseInt(values[2]),
     defenderId       |-> parseInt(values[3]),
     attackerUnit     |-> formatEnumName(orElse(values[6], "UNKNOWN")),
     defenderUnit     |-> formatEnumName(orElse(values[7], "UNKNOWN")),
     attackerStrength |-> parseInt(values[10]),
     defenderStrength |-> parseInt(values[11]),
     attackerDamage   |-> parseInt(values[14]),
     defenderDamage   |-> parseInt(values[13])]

parseCombatLog(file, stats) ==
    Let(buildPlayerIdMap(stats), LAMBDA playerMap :
        recordsOf(loadRows(file, COMBAT_COLUMNS), LAMBDA values : combatRecord(values, playerMap)))

PRODUCTION_COLUMNS == 7

\* turnsRemaining, a quotient of the parsed numbers that nothing below reads,
\* is left out of the record.
cityProduction(values) ==
    [turn              |-> parseInt(values[1]),
     city              |-> values[2],
     cityDisplayName   |-> formatCityName(values[2]),
     currentItem       |-> values[4],
     itemDisplayName   |-> formatEnumName(values[4]),
     productionPerTurn |-> parseDecimal(values[3]),
     currentProgress   |-> parseDecimal(values[5]),
     productionNeeded  |-> parseDecimal(values[6]),
     overflow          |-> decimalOrZero(parseDecimal(values[7]))]

parseCityProduction(file) == recordsOf(loadRows(file, PRODUCTION_COLUMNS), cityProduction)

CITY_BUILD_COLUMNS == 5

cityFoundingStats(values) ==
    [turn                |-> parseInt(values[1]),
     playerId            |-> parseInt(values[2]),
     city                |-> values[3],
     cityDisplayName     |-> formatCityName(values[3]),
     foodAdvantage       |-> parseDecimal(values[4]),
     productionAdvantage |-> parseDecimal(values[5])]

\* `${playerId}:${city}`
foundingKey(stat) == numberText(stat.playerId) \o ":" \o stat.city

\* The rows with both advantages, the last of every player and city.
parseCityFoundingStatsLast(file) ==
    Let(recordsOf(loadRows(file, CITY_BUILD_COLUMNS), cityFoundingStats), LAMBDA read :
        IF read.kind = "throw" THEN read
        ELSE
    Let(SelectSeq(read.data, LAMBDA stat :
                      ~isNaN(stat.foodAdvantage) /\ ~isNaN(stat.productionAdvantage)),
        LAMBDA founding :
    Let(SelectSeq([k \in 1..Len(founding) |-> k],
                  LAMBDA k : \A j \in (k + 1)..Len(founding) :
                                 foundingKey(founding[j]) # foundingKey(founding[k])),
        LAMBDA lasts : Value([k \in 1..Len(lasts) |-> founding[lasts[k]]]))))

\* The rows with both advantages, the first of every player and city.
parseCityFoundingStats(file) ==
    Let(recordsOf(loadRows(file, CITY_BUILD_COLUMNS), cityFoundingStats), LAMBDA read :
        IF read.kind = "throw" THEN read
        ELSE
    Let(SelectSeq(read.data, LAMBDA stat :
                      ~isNaN(stat.foodAdvantage) /\ ~isNaN(stat.productionAdvantage)),
        LAMBDA founding :
    Let(SelectSeq([k \in 1..Len(founding) |-> k],
                  LAMBDA k : \A j \in 1..(k - 1) :
                                 foundingKey(founding[j]) # foundingKey(founding[k])),
        LAMBDA firsts : Value([k \in 1..Len(firsts) |-> founding[firsts[k]]]))))

TECH_COLUMNS == 7

techProgress(values, playerMap) ==
    [turn           |-> parseInt(values[1]),
     civilization   |-> formatCivName(getCivName(parseInt(values[2]), playerMap)),
     playerId       |-> parseInt(values[2]),
     tech           |-> formatEnumName(values[4]),
     status         |-> values[6],
     turnsRemaining |-> parseInt(values[7])]

parseTechStatus(file, stats) ==
    Let(buildPlayerIdMap(stats), LAMBDA playerMap :
    Let(loadRows(file, TECH_COLUMNS), LAMBDA rows :
        IF rows.kind = "throw" THEN rows
        ELSE recordsOf(Value(SelectSeq(rows.data, LAMBDA values : values[3] = "Tech")),
                       LAMBDA values : techProgress(values, playerMap))))

CONGRESS_COLUMNS == 3

congressVote(values, playerMap) ==
    [turn         |-> parseInt(values[1]),
     resolution   |-> formatEnumName(values[3]),
     playerId     |-> parseInt(values[4]),
     player       |-> formatCivName(getCivName(parseInt(values[4]), playerMap)),
     votes        |-> parseInt(values[5]),
     targetOption |-> 0]

congressResult(values) ==
    [turn          |-> parseInt(values[1]),
     resolution    |-> formatEnumName(values[3]),
     winningOption |-> parseInt(values[4]),
     voteCount     |-> parseInt(values[5])]

isVotes(values) == values[2] = "VOTES" /\ Len(values) >= 5
isOptions(values) == values[2] = "OPTIONS" /\ Len(values) >= 6
isDecided(values) == values[2] = "RESOLUTION DECIDED" /\ Len(values) >= 5

\* votes.find(v => v.turn === turn && v.playerId === playerId &&
\*                 v.resolution === formatEnumName(resolution))
votedOn(vote, values) ==
    /\ strictEquals(vote.turn, parseInt(values[1]))
    /\ strictEquals(vote.playerId, parseInt(values[4]))
    /\ vote.resolution = formatEnumName(values[3])

\* The votes of the rows up to row n: a VOTES row adds a vote, an OPTIONS row
\* writes its second option to the first vote it finds.
RECURSIVE votesUpTo(_, _, _)
votesUpTo(rows, n, playerMap) ==
    IF n = 0 THEN << >>
    ELSE
    Let(votesUpTo(rows, n - 1, playerMap), LAMBDA votes :
        IF isVotes(rows[n]) THEN Append(votes, congressVote(rows[n], playerMap))
        ELSE IF isOptions(rows[n])
        THEN Let({k \in 1..Len(votes) : votedOn(votes[k], rows[n])}, LAMBDA found :
                 IF found = {} THEN votes
                 ELSE [votes EXCEPT ![SetMin(found)].targetOption = parseInt(rows[n][6])])
        ELSE votes)

parseWorldCongress(file, stats) ==
    Let(buildPlayerIdMap(stats), LAMBDA playerMap :
    Let(loadRows(file, CONGRESS_COLUMNS), LAMBDA rows :
        IF rows.kind = "throw" THEN rows
        ELSE Value([votes   |-> votesUpTo(rows.data, Len(rows.data), playerMap),
                    results |-> Let(SelectSeq(rows.data, LAMBDA values :
                                                  ~isVotes(values) /\ ~isOptions(values)
                                                  /\ isDecided(values)),
                                    LAMBDA decided :
                                        [k \in 1..Len(decided) |-> congressResult(decided[k])])])))

GREAT_PEOPLE_COLUMNS == 7

greatPersonEvent(values, playerMap) ==
    [turn        |-> parseInt(values[1]),
     event       |-> values[2],
     individual  |-> values[3],
     displayName |-> formatEnumName(values[3]),
     gpClass     |-> formatEnumName(values[4]),
     era         |-> formatEnumName(values[5]),
     cost        |-> parseInt(values[6]),
     recipientId |-> parseInt(values[7]),
     recipient   |-> IF parseInt(values[7]) # NaN /\ parseInt(values[7]) >= 0
                     THEN formatCivName(getCivName(parseInt(values[7]), playerMap))
                     ELSE "null"]

parseGreatPeople(file, stats) ==
    Let(buildPlayerIdMap(stats), LAMBDA playerMap :
        recordsOf(loadRows(file, GREAT_PEOPLE_COLUMNS),
                  LAMBDA values : greatPersonEvent(values, playerMap)))

\* The classes of CULTURAL_GP_CLASSES without 'GREAT_PERSON_CLASS_'.
CULTURAL_GP_CLASSES == {"ARTIST", "WRITER", "MUSICIAN"}

RECURSIVE upperCase(_)
upperCase(w) == IF w = "" THEN "" ELSE upperChar(charAt(w, 1)) \o upperCase(SubSeq(w, 2, Len(w)))

\* gp.gpClass.toUpperCase().replace(/ /g, '_').includes(c)
isCultural(gp) == \E c \in CULTURAL_GP_CLASSES : strIndexOf(upperCase(gp.gpClass), c) > 0

parseCulturalGreatPeople(file, stats) ==
    Let(parseGreatPeople(file, stats), LAMBDA allGreatPeople :
        IF allGreatPeople.kind = "throw" THEN allGreatPeople
        ELSE Value(SelectSeq(allGreatPeople.data, isCultural)))

----------------------------------------------------------------------------
(* The tools that read the logs (src/src/index.ts, the cases of the        *)
(* request handler).  A response text is kept up to the end of its first   *)
(* line.                                                                   *)

\* Math.max(...records.map(r => r.turn))
latestTurnOf(records) ==
    IF \E k \in 1..Len(records) : records[k].turn = NaN THEN NaN
    ELSE SetMax({records[k].turn : k \in 1..Len(records)})

titled(title, turn) == title \o " (Turn " \o numberText(turn) \o ")"

\* The response of a tool to what its loader returned: isError for an error
\* thrown (the catch of lines 873-884), the notice for an empty list, the
\* formatted text otherwise.
respond(result, notice, Format(_)) ==
    IF result.kind = "throw" THEN ErrorResult(result)
    ELSE IF Len(result.data) = 0 THEN TextResult(notice)
    ELSE TextResult(Format(result.data))

findHistoryFile(stats) == IF existsSync(stats) THEN Value(stats) ELSE Null

NOT_ENABLED ==
    "Game history logging is not enabled. Enable it by setting GameHistoryLogLevel=1 in UserOptions.txt, then play at least one turn."
NO_STATISTICS == "No statistics available yet. Play at least one turn with logging enabled."

\* null or [] of the history functions as the empty list.
listOf(stats) == IF stats = Null THEN Value(<< >>) ELSE Value(stats.data)

get_civ_statistics(stats, scores) ==
    IF findHistoryFile(stats) = Null
    THEN TextResult("Game history logging is not enabled or no data has been recorded yet.")
    ELSE respond(listOf(getLatestTurnStats(stats, scores)),
                 "No statistics found for the requested turn. The game history file exists but may not contain data yet.",
                 LAMBDA latest : "[")

\* formatVictoryProgress(progress)
formatVictoryProgress(progress) ==
    IF Len(progress) = 0 THEN "No victory progress data available." ELSE "# Victory Progress"

get_victory_progress(stats, scores) ==
    IF findHistoryFile(stats) = Null THEN TextResult(NOT_ENABLED)
    ELSE respond(listOf(getLatestTurnStatsFullCivsOnly(stats, scores)), NO_STATISTICS,
                 LAMBDA latest :
                     formatVictoryProgress(calculateVictoryProgress(Value(latest))))

get_yield_comparison(stats, scores) ==
    IF findHistoryFile(stats) = Null THEN TextResult(NOT_ENABLED)
    ELSE respond(listOf(getLatestTurnStatsFullCivsOnly(stats, scores)), NO_STATISTICS,
                 LAMBDA latest : "# Civilization Statistics Comparison")

get_diplomatic_status(diplomacy, stats) ==
    respond(Value(parseDiplomacy(diplomacy, stats)),
            "No diplomatic data available. Make sure game logging is enabled and you have played at least one turn.",
            LAMBDA relations : "# Diplomatic Status")

get_diplomatic_modifiers(dir, stats) ==
    respond(parseDiplomacyModifiers(dir.DIPLOMACY_MODIFIERS, stats),
            "No diplomatic modifier data available.",
            LAMBDA modifiers : "# Diplomatic Modifiers")

get_military_intelligence(dir, stats) ==
    respond(parseMilitaryIntel(dir.MILITARY, stats), "No military intelligence data available.",
            LAMBDA intel : titled("# Military Intelligence", latestTurnOf(intel)))

\* parsed.turns is the default of the schema.
DEFAULT_COMBAT_TURNS == 5

get_combat_log(dir, stats) ==
    respond(parseCombatLog(dir.COMBAT, stats),
            "No combat records available. The game is peaceful (for now).",
            LAMBDA records :
                "# Combat Log (Last " \o ToString(DEFAULT_COMBAT_TURNS) \o " Turns)")

get_city_production(dir) ==
    respond(parseCityProduction(dir.CITY_PRODUCTION), "No city production data available.",
            LAMBDA production : titled("# City Production", latestTurnOf(production)))

AUSTRALIAN_CITIES ==
    {"CANBERRA", "SYDNEY", "MELBOURNE", "PERTH", "ADELAIDE", "BRISBANE", "GEELONG", "HOBART",
     "DARWIN", "TOOWOOMBA", "BALLAARAT", "NEWCASTLE"}

\* formatCityStatus(production, foundingStats, playerId) up to its first line.
formatCityStatus(production, foundingStats, playerId) ==
    Let(SelectSeq(foundingStats, LAMBDA s : strictEquals(s.playerId, playerId)),
        LAMBDA playerFoundingStats :
    Let(IF Len(production) > 0 THEN latestTurnOf(production) ELSE 0, LAMBDA latestTurn :
    Let(SelectSeq(production, LAMBDA p :
            /\ strictEquals(p.turn, latestTurn)
            /\ \E name \in AUSTRALIAN_CITIES : strIndexOf(upperCase(p.city), name) > 0),
        LAMBDA guessed :
        IF Len(playerFoundingStats) = 0 /\ Len(guessed) = 0
        THEN "No city data available. Enable game logging with GameHistoryLogLevel=1 in UserOptions.txt."
        ELSE titled("# City Status", latestTurn))))

\* parsed.player_id is the default of the schema.
get_city_status(dir) ==
    Let(parseCityProduction(dir.CITY_PRODUCTION), LAMBDA production :
    Let(parseCityFoundingStats(dir.CITY_BUILD), LAMBDA foundingStats :
        IF production.kind = "throw" THEN ErrorResult(production)
        ELSE IF foundingStats.kind = "throw" THEN ErrorResult(foundingStats)
        ELSE IF Len(foundingStats.data) = 0 /\ Len(production.data) = 0
        THEN TextResult("No city data available. Make sure game logging is enabled (GameHistoryLogLevel=1 in UserOptions.txt) and you have played at least one turn.")
        ELSE TextResult(formatCityStatus(production.data, foundingStats.data, 0))))

get_tech_status(dir, stats) ==
    respond(parseTechStatus(dir.TECH, stats), "No technology data available.",
            LAMBDA progress : titled("# Technology Status", latestTurnOf(progress)))

get_world_congress(dir, stats) ==
    Let(parseWorldCongress(dir.WORLD_CONGRESS, stats), LAMBDA congress :
        IF congress.kind = "throw" THEN ErrorResult(congress)
        ELSE IF Len(congress.data.votes) = 0 /\ Len(congress.data.results) = 0
        THEN TextResult("No World Congress data available. Congress may not have convened yet.")
        ELSE TextResult("# World Congress"))

get_great_people(dir, stats) ==
    respond(parseGreatPeople(dir.GREAT_PEOPLE, stats), "No Great People data available.",
            LAMBDA events : "# Great People")

get_great_people_culture(dir, stats) ==
    respond(parseCulturalGreatPeople(dir.GREAT_PEOPLE, stats),
            "No cultural Great People data available. Artists, Writers, and Musicians have not been recruited yet.",
            LAMBDA events : "# Cultural Victory - Great People")

\* parseScoreBreakdown: the rows of Game_PlayerScores.csv, none without file.
parseScoreBreakdown(scores) == Value(parsePlayerScoresCSV(scores))

get_score_breakdown(scores) ==
    respond(parseScoreBreakdown(scores),
            "No score data available. Enable game logging (GameHistoryLogLevel=1 in UserOptions.txt) and play at least one turn.",
            LAMBDA breakdown : "# Score Breakdown")

\* generateStrategicOverview(civStats, playerCiv): the first line of the
\* briefing and the two lists its sections "Immediate Threats" and
\* "Diplomatic Opportunities" are written from.  (The sections on conflicts,
\* the victory race and production are left out.)

\* playerCiv || (civStats.find(s => !s.isCityState)?.civilization || 'Unknown')
humanCivOf(civStats, playerCiv) ==
    IF playerCiv # "" THEN playerCiv
    ELSE Let(SelectSeq(civStats, isMajor), LAMBDA majors :
             IF majors # << >> /\ majors[1].civilization # "" THEN majors[1].civilization
             ELSE "Unknown")

\* Math.max(...records.map(r => r.turn)) of a list that is not empty.
maxTurn(records) ==
    IF \E k \in 1..Len(records) : records[k].turn = NaN THEN NaN
    ELSE SetMax({records[k].turn : k \in 1..Len(records)})

\* militaryIntel.filter(i => i.turn === Math.max(...))
latestMilitary(militaryIntel) ==
    SelectSeq(militaryIntel, LAMBDA i : strictEquals(i.turn, maxTurn(militaryIntel)))

\* number > n for the decimal a cell was read as.
exceeds(number, n) ==
    ~number.negative /\ (number.whole > n \/ (number.whole = n /\ number.frac # ""))

HIGH_DESIRE == 10
MEDIUM_DESIRE == 5
MEDIUM_STRENGTH == 500

strategicThreat(civilization, threatLevel, reason) ==
    [civilization |-> civilization, threatLevel |-> threatLevel, reason |-> reason]

\* The threats the loop over latestMilitary pushes (index.ts:2110-2128).
militaryThreats(rows, humanCiv) ==
    flatten([k \in 1..Len(rows) |->
        IF rows[k].civilization = humanCiv THEN << >>
        ELSE IF exceeds(rows[k].combatDesire, HIGH_DESIRE)
        THEN <<strategicThreat(rows[k].civilization, "HIGH", "Extremely aggressive")>>
        ELSE IF exceeds(rows[k].combatDesire, MEDIUM_DESIRE)
                /\ rows[k].regionalStrength # NaN /\ rows[k].regionalStrength > MEDIUM_STRENGTH
        THEN <<strategicThreat(rows[k].civilization, "MEDIUM",
                               "Strong military with aggressive posture")>>
        ELSE << >>])

HOSTILE_STATES == {"DENOUNCED", "UNFRIENDLY", "WAR"}
FRIENDLY_STATES == {"ALLIED", "FRIENDLY", "DECLARED_FRIEND"}

\* relations.filter(r => r.fromCiv === humanCiv && (r.state === ... ))
relationsIn(relations, humanCiv, states) ==
    SelectSeq(relations, LAMBDA r : r.fromCiv = humanCiv /\ r.state \in states)

\* The threats the loop over hostileRelations pushes (index.ts:2156-2170): for
\* the first hostile relation of every partner, when no threat names the
\* partner yet and the relation is no war.
diplomaticThreats(hostileRelations, threats) ==
    flatten([k \in 1..Len(hostileRelations) |->
        Let(hostileRelations[k], LAMBDA rel :
            IF (\E j \in 1..(k - 1) : hostileRelations[j].toCiv = rel.toCiv)
               \/ (\E t \in 1..Len(threats) : threats[t].civilization = rel.toCiv)
               \/ rel.state = "WAR"
            THEN << >>
            ELSE <<strategicThreat(rel.toCiv,
                                   IF rel.state = "DENOUNCED" THEN "MEDIUM" ELSE "LOW",
                                   "Hostile diplomatic stance")>>)])

\* rel.score > existing.score
higherScore(rel, existing) == rel.score # NaN /\ existing.score # NaN /\ rel.score > existing.score

\* Array.from(bestFriendlyByCiv.values()) (index.ts:2193-2202): the partners
\* in the order of their first relation, each with the relation that no other
\* of the partner before or after it replaces.
bestFriendlyByCiv(friendlyRelations) ==
    Let(unique([k \in 1..Len(friendlyRelations) |-> friendlyRelations[k].toCiv]), LAMBDA partners :
        [p \in 1..Len(partners) |->
            Let({k \in 1..Len(friendlyRelations) : friendlyRelations[k].toCiv = partners[p]},
                LAMBDA of :
            \* k replaces the relation kept so far when its score is higher than
            \* the score of that relation: the relation kept after k is kept(k).
            LET RECURSIVE kept(_)
                kept(k) ==
                    IF k = SetMin(of) THEN k
                    ELSE Let(kept(SetMax({j \in of : j < k})), LAMBDA existing :
                             IF higherScore(friendlyRelations[k], friendlyRelations[existing])
                             THEN k ELSE existing)
            IN  friendlyRelations[kept(SetMax(of))])])

\* b.score - a.score > 0
lowerRelationScore(a, b) == higherScore(b, a)

generateStrategicOverview(civStats, playerCiv, diplomacy, dir, stats) ==
    Let(<<Value(parseDiplomacy(diplomacy, stats)), parseMilitaryIntel(dir.MILITARY, stats),
          parseCombatLog(dir.COMBAT, stats), parseCityProduction(dir.CITY_PRODUCTION)>>,
        LAMBDA loads :
    Let(SelectSeq(loads, LAMBDA load : load.kind = "throw"), LAMBDA thrown :
        IF thrown # << >> THEN thrown[1]
        ELSE
    Let(humanCivOf(civStats, playerCiv), LAMBDA humanCiv :
    Let(militaryThreats(latestMilitary(loads[2].data), humanCiv), LAMBDA threats :
        Value([title         |-> titled("# Strategic Overview",
                                        IF Len(civStats) > 0 THEN civStats[1].turn ELSE 0),
               humanCiv      |-> humanCiv,
               threats       |-> threats
                                 \o diplomaticThreats(relationsIn(loads[1].data, humanCiv,
                                                                  HOSTILE_STATES), threats),
               opportunities |-> sort(bestFriendlyByCiv(relationsIn(loads[1].data, humanCiv,
                                                                    FRIENDLY_STATES)),
                                      lowerRelationScore)])))))

\* The tool, called without a civilization; its text up to the first line.
get_strategic_overview(stats, scores, diplomacy, dir) ==
    Let(listOf(getLatestTurnStatsFullCivsOnly(stats, scores)), LAMBDA latest :
        IF Len(latest.data) = 0
        THEN TextResult("No game data available. Enable logging (GameHistoryLogLevel=1) and play at least one turn.")
        ELSE Let(generateStrategicOverview(latest.data, "", diplomacy, dir, stats),
                 LAMBDA formatted :
                 IF formatted.kind = "throw" THEN ErrorResult(formatted)
                 ELSE TextResult(formatted.data.title)))

\* formatTrendAnalysis(trends) up to its first line.
formatTrendAnalysis(trends) ==
    "# Trend Analysis (Turns " \o numberText(trends[1].startTurn) \o " -> "
        \o numberText(trends[1].endTurn) \o ")"

get_trend_analysis(stats, scores, turns) ==
    respond(listOf(analyzeTrends(stats, scores, turns)),
            "No trend data available. Need at least 2 turns of game history. Play more turns with logging enabled.",
            formatTrendAnalysis)

\* The tools that read the logs.
LOG_TOOLS ==
    {"get_civ_statistics", "get_victory_progress", "get_yield_comparison",
     "get_diplomatic_status", "get_diplomatic_modifiers", "get_military_intelligence",
     "get_combat_log", "get_city_production", "get_city_status", "get_tech_status",
     "get_world_congress", "get_great_people", "get_great_people_culture",
     "get_score_breakdown", "get_strategic_overview", "get_trend_analysis"}

\* parsed.turns of get_trend_analysis is the default of the schema.
DEFAULT_TREND_TURNS == 10

\* The switch of the handler on the name of a log tool.
callLogTool(name, stats, scores, diplomacy, dir) ==
    CASE name = "get_civ_statistics" -> get_civ_statistics(stats, scores)
      [] name = "get_victory_progress" -> get_victory_progress(stats, scores)
      [] name = "get_yield_comparison" -> get_yield_comparison(stats, scores)
      [] name = "get_diplomatic_status" -> get_diplomatic_status(diplomacy, stats)
      [] name = "get_diplomatic_modifiers" -> get_diplomatic_modifiers(dir, stats)
      [] name = "get_military_intelligence" -> get_military_intelligence(dir, stats)
      [] name = "get_combat_log" -> get_combat_log(dir, stats)
      [] name = "get_city_production" -> get_city_production(dir)
      [] name = "get_city_status" -> get_city_status(dir)
      [] name = "get_tech_status" -> get_tech_status(dir, stats)
      [] name = "get_world_congress" -> get_world_congress(dir, stats)
      [] name = "get_great_people" -> get_great_people(dir, stats)
      [] name = "get_great_people_culture" -> get_great_people_culture(dir, stats)
      [] name = "get_score_breakdown" -> get_score_breakdown(scores)
      [] name = "get_strategic_overview" -> get_strategic_overview(stats, scores, diplomacy, dir)
      [] name = "get_trend_analysis" -> get_trend_analysis(stats, scores, DEFAULT_TREND_TURNS)

----------------------------------------------------------------------------
(* The log files the specification of the loaders starts from.  Each case  *)
(* keeps, next to the text of its files, the rows the text was written     *)
(* from.                                                                   *)

RECURSIVE joinWith(_, _)
joinWith(strings, sep) ==
    IF Len(strings) = 0 THEN ""
    ELSE IF Len(strings) = 1 THEN strings[1]
    ELSE strings[1] \o sep \o joinWith(Tail(strings), sep)

\* A file of a header line and the given lines, each ended by a line feed.
csvFile(header, lines) == joinWith(<<header>> \o lines, "\n") \o "\n"

STATS_HEADER ==
    "Game Turn, Player, Num Cities, Population, Techs, Civics, Land Units, corps, Armies, "
    \o "Naval Units, TILES: Owned, Improved, BALANCE: Gold, Faith, YIELDS: Science, Culture, "
    \o "Gold, Faith, Production, Food"
SCORES_HEADER ==
    "Game Turn, Player, Score, Civics, Empire, Great People, Religion, Tech, Wonder"
DIPLOMACY_HEADER == "Game Turn, Player, Action, Initial State, 0, 1, 2"

Civs == <<"GEORGIA", "ROME", "EGYPT", "KABUL">>
civNumber(civ) == CHOOSE k \in 1..Len(Civs) : Civs[k] = civ

\* One row of Player_Stats.csv: the numbers of a civilization at a turn, all
\* alike under the profile "level", unlike and partly tied under "mixed".
statsRow(turn, civ, profile) ==
    Let(IF profile = "level" THEN 1 ELSE civNumber(civ), LAMBDA o :
        [turn |-> turn, civ |-> civ,
         cities |-> 1 + (turn % 3), population |-> 4 + o,
         techs |-> turn + (o % 2), civics |-> 2,
         landUnits |-> o, corps |-> turn % 2, armies |-> 1, navalUnits |-> 4 - o,
         tilesOwned |-> 6 * o + turn, tilesImproved |-> 3,
         goldBalance |-> 50, faithBalance |-> 7,
         science |-> 2 * turn + o, culture |-> 20 - 2 * o,
         gold |-> 5 * o, faith |-> 0, production |-> 9, food |-> 11])

statsLine(r) ==
    joinWith(<<ToString(r.turn), "CIVILIZATION_" \o r.civ, ToString(r.cities),
               ToString(r.population), ToString(r.techs), ToString(r.civics),
               ToString(r.landUnits), ToString(r.corps), ToString(r.armies),
               ToString(r.navalUnits), ToString(r.tilesOwned), ToString(r.tilesImproved),
               ToString(r.goldBalance), ToString(r.faithBalance), ToString(r.science),
               ToString(r.culture), ToString(r.gold), ToString(r.faith),
               ToString(r.production), ToString(r.food)>>, ", ")

scoreRow(turn, playerId, score) == [turn |-> turn, playerId |-> playerId, score |-> score]

scoreLine(r) ==
    joinWith(<<ToString(r.turn), ToString(r.playerId), ToString(r.score),
               "10", "20", "0", "0", "30", "0">>, ", ")

\* The civilizations one turn lists, in the order of its rows.
Rosters ==
    {<<"GEORGIA">>, <<"ROME">>, <<"GEORGIA", "ROME">>, <<"ROME", "GEORGIA">>,
     <<"GEORGIA", "EGYPT", "ROME">>, <<"GEORGIA", "KABUL", "ROME">>}

\* The turns of a file in the order of their rows.
ShortRuns == {<<12>>, <<1, 2>>, <<2, 1>>}
LongRuns == {<<1, 5, 9, 15>>, <<0, 1, 2>>, <<0, 3>>, <<3, 4, 8>>}
Profiles == {"level", "mixed"}
MaxPlayers == 3

\* The rows of the turns of run, turn k listing the civilizations of rosters[k].
statsRows(run, rosters, profile) ==
    flatten([k \in 1..Len(run) |->
                [c \in 1..Len(rosters[k]) |-> statsRow(run[k], rosters[k][c], profile)]])

\* A scores row for every turn of run and every player index kept.
scoreRows(run, profile, Kept(_, _)) ==
    flatten([k \in 1..Len(run) |->
                SelectSeq([i \in 1..MaxPlayers |->
                              scoreRow(run[k], i - 1,
                                       IF profile = "level" THEN 100
                                       ELSE 100 * run[k] + 10 * ((i - 1) % 2))],
                          LAMBDA r : Kept(k, r.playerId))])

logCase(rows, scores, diplomacy) ==
    [stats      |-> IF rows = << >> THEN NoFile
                    ELSE csvFile(STATS_HEADER, [k \in 1..Len(rows) |-> statsLine(rows[k])]),
     scores     |-> IF scores = << >> THEN NoFile
                    ELSE csvFile(SCORES_HEADER, [k \in 1..Len(scores) |-> scoreLine(scores[k])]),
     diplomacy  |-> IF diplomacy = << >> THEN NoFile
                    ELSE csvFile(DIPLOMACY_HEADER, diplomacy),
     rows       |-> rows,
     scoreRows  |-> scores]

everyScore(k, playerId) == TRUE
firstTurnFirstPlayer(k, playerId) == k = 1 /\ playerId = 0

RosterRuns ==
    {<<run, rosters>> \in ShortRuns \X (UNION {[1..n -> Rosters] : n \in 1..2}) :
        Len(run) = Len(rosters)}

HistoryCases ==
    {logCase(statsRows(rr[1], rr[2], profile), scoreRows(rr[1], profile, everyScore), << >>) :
        rr \in RosterRuns, profile \in Profiles}
    \cup {logCase(statsRows(rr[1], rr[2], "mixed"),
                  scoreRows(rr[1], "mixed", firstTurnFirstPlayer), << >>) : rr \in RosterRuns}
    \cup {logCase(statsRows(rr[1], rr[2], "mixed"), << >>, << >>) :
             rr \in {r \in RosterRuns : Len(r[1]) = 1}}

TrendCases ==
    {logCase(statsRows(run, [k \in 1..Len(run) |-> roster], profile),
             scoreRows(run, profile, everyScore), << >>) :
        run \in LongRuns, roster \in Rosters, profile \in Profiles}

\* The scenario of the history parser: Georgia at turn 12 with culture 18, and
\* the scores row of turn 12, player index 0, score 900.
GeorgiaCase ==
    logCase(<<[statsRow(12, "GEORGIA", "mixed") EXCEPT !.culture = 18]>>,
            <<scoreRow(12, 0, 900)>>, << >>)

\* Lines of AI_Diplomacy.csv: relation rows of players 0, 1 and 2 with a cell
\* in their own column, "Threat and Trust" rows, a row whose player is no
\* number and a row too short to be read.
DiplomacyLines ==
    {"5, 0, State, , 12:DIPLO_STATE_FRIENDLY, -3:DIPLO_STATE_WAR, 4:DIPLO_STATE_ALLIED",
     "5, 1, State, , -8:DIPLO_STATE_UNFRIENDLY, 7:DIPLO_STATE_NEUTRAL, ",
     "5, 0, Threat and Trust, , 1.5:1:2.5, 60.16:1:32.00, 0:2:9",
     "5, x, State, , 3:DIPLO_STATE_NEUTRAL",
     "5, 2, State",
     "6, 2, State, , 1:DIPLO_STATE_DENOUNCED, junk, 2:DIPLO_STATE_NEUTRAL, 9:DIPLO_STATE_WAR",
     "6, 1, Threat and Trust, , 7:1:7, 8:1:8"}

MaxDiplomacyLines == 2

DiplomacyCases ==
    {logCase(rows, << >>, lines) :
        rows \in {<< >>, statsRows(<<12>>, <<<<"GEORGIA", "EGYPT", "ROME">>>>, "mixed")},
        lines \in UNION {[1..n -> DiplomacyLines] : n \in 1..MaxDiplomacyLines}}

\* Rows of AI_Diplomacy.csv kept next to their text: the turn, the emitting
\* player and, per partner column, the cell that is written (Null: an empty
\* cell).
stateCell(score, state) ==
    [text |-> ToString(score) \o DIPLO_STATE \o state, score |-> score, state |-> state]

threatTrustCell(text, threat, trust) == [text |-> text, threat |-> threat, trust |-> trust]

cellText(cell) == IF cell = Null THEN "" ELSE cell.text

diplomacyRow(turn, from, action, rowCells) ==
    [turn |-> turn, from |-> from, action |-> action, cells |-> rowCells]

diplomacyLine(row) ==
    joinWith(<<ToString(row.turn), ToString(row.from), row.action, "">>
                 \o [k \in 1..Len(row.cells) |-> cellText(row.cells[k])], ", ")

\* Players 0 and 1 see each other differently at turn 5 (-3 WAR one way,
\* 7 UNFRIENDLY the other); player 0 emits rows at turns 5 and 6 with other
\* scores, and "Threat and Trust" rows at both turns.
DiplomacyRows ==
    {diplomacyRow(5, 0, "State",
                  <<stateCell(12, "FRIENDLY"), stateCell(-3, "WAR"), stateCell(4, "ALLIED")>>),
     diplomacyRow(5, 1, "State",
                  <<stateCell(7, "UNFRIENDLY"), stateCell(0, "NEUTRAL"), Null>>),
     diplomacyRow(6, 0, "State",
                  <<Null, stateCell(-9, "DENOUNCED"), stateCell(5, "FRIENDLY")>>),
     diplomacyRow(5, 0, THREAT_AND_TRUST,
                  <<Null, threatTrustCell("60.16:1:32.00", Float(60, "16"), Float(32, "")),
                    threatTrustCell("1.5:2:2.5", Float(1, "5"), Float(2, "5"))>>),
     diplomacyRow(6, 0, THREAT_AND_TRUST,
                  <<Null, threatTrustCell("7:1:8", Float(7, ""), Float(8, "")), Null>>)}

MaxDirectedLines == 3

DirectedRowLists == UNION {[1..n -> DiplomacyRows] : n \in 1..MaxDirectedLines}

directedLines(rowList) == [k \in 1..Len(rowList) |-> diplomacyLine(rowList[k])]

directedCase(rowList) ==
    logCase(statsRows(<<12>>, <<<<"GEORGIA", "EGYPT", "ROME">>>>, "mixed"), << >>,
            directedLines(rowList))

DirectedCases == {directedCase(rowList) : rowList \in DirectedRowLists}

\* A turn that also lists minor entities: the row of a civilization under
\* the name of a city-state or of the Free Cities.
minorRow(turn, name, like) == [statsRow(turn, like, "mixed") EXCEPT !.civ = name]

Minors == {"HONG_KONG", "TORONTO", "KABUL", "FREE_CITIES"}

\* Georgia and Rome with one minor entity before, between or after them.
MinorCases ==
    {logCase(SubSeq(majors, 1, at) \o <<minorRow(12, name, like)>>
                \o SubSeq(majors, at + 1, Len(majors)),
             scoreRows(<<12>>, "mixed", everyScore), << >>) :
        majors \in {statsRows(<<12>>, <<<<"GEORGIA", "ROME">>>>, "mixed")},
        at \in 0..2, name \in Minors, like \in {"GEORGIA", "EGYPT"}}

\* A turn logged twice (the game went back to an earlier save): the latest
\* turn lists Georgia a second time behind its first rows.
RepeatedCases ==
    {logCase(statsRows(<<first, 2, 2>>, <<early, <<"GEORGIA", "ROME">>, <<"GEORGIA">>>>, "mixed"),
             scoreRows(<<first, 2>>, "mixed", everyScore), << >>) :
        first \in {1}, early \in {<<"GEORGIA", "ROME">>, <<"ROME">>}}

\* An empire that runs a deficit: a negative gold yield at the first turn,
\* and at the last turn a deficit still or a surplus.
DeficitCases ==
    {logCase(<<[statsRow(3, "GEORGIA", "mixed") EXCEPT !.gold = -4],
               [statsRow(3, "ROME", "mixed") EXCEPT !.gold = 0],
               [statsRow(7, "GEORGIA", "mixed") EXCEPT !.gold = later],
               statsRow(7, "ROME", "mixed")>>,
             scoreRows(<<3, 7>>, "mixed", everyScore), << >>) : later \in {-9, 6}}

\* A turn in progress: turn 11 lists Georgia and Rome, turn 12 so far Georgia
\* and one minor entity.
MidTurnCases ==
    {logCase(statsRows(<<11>>, <<<<"GEORGIA", "ROME">>>>, "mixed")
                 \o <<statsRow(12, "GEORGIA", "mixed"), minorRow(12, name, "EGYPT")>>,
             scoreRows(<<11, 12>>, "mixed", everyScore), << >>) : name \in Minors}

LogCases ==
    HistoryCases \cup TrendCases \cup {GeorgiaCase} \cup DiplomacyCases \cup DirectedCases
    \cup MinorCases \cup RepeatedCases \cup DeficitCases \cup MidTurnCases

----------------------------------------------------------------------------
(* The specification of the loaders: the log files are on disk, and the    *)
(* functions that read them are called in any order, one call at a time.   *)

LogsSave == [name |-> Codes("Saves/Georgia.Civ6Save"), content |-> turnHeader(12)]

\* The lookbacks asked of the trend analysis; 10 is the default of the tool.
TurnsBack == {2, 10}

InitLogs ==
    /\ saveFile = LogsSave
    /\ \E c \in LogCases :
          /\ statsFile = c.stats
          /\ scoresFile = c.scores
          /\ diplomacyFile = c.diplomacy
    /\ logDir = NoLogs
    /\ gameContext = {}
    /\ ret = NoCall

CallBuildPlayerIdMap ==
    /\ ret = NoCall
    /\ ret' = [fn |-> "buildPlayerIdMap", out |-> buildPlayerIdMap(statsFile)]
    /\ UNCHANGED <<saveFile, logs, gameContext>>

CallParseGameHistory ==
    /\ ret = NoCall
    /\ ret' = [fn |-> "parseGameHistory", out |-> parseGameHistory(statsFile, scoresFile)]
    /\ UNCHANGED <<saveFile, logs, gameContext>>

CallAnalyzeTrends(turnsBack) ==
    /\ ret = NoCall
    /\ ret' = [fn |-> "analyzeTrends", turnsBack |-> turnsBack,
               out |-> analyzeTrends(statsFile, scoresFile, turnsBack)]
    /\ UNCHANGED <<saveFile, logs, gameContext>>

\* calculateVictoryProgress on the statistics of the latest turn, of all its
\* civilizations or of the latest complete turn's major ones.
CallCalculateVictoryProgress(fullCivsOnly) ==
    /\ ret = NoCall
    /\ Let(IF fullCivsOnly THEN getLatestTurnStatsFullCivsOnly(statsFile, scoresFile)
           ELSE getLatestTurnStats(statsFile, scoresFile), LAMBDA stats :
           ret' = [fn |-> "calculateVictoryProgress", fullCivsOnly |-> fullCivsOnly,
                   stats |-> stats,
                   out |-> calculateVictoryProgress(stats)])
    /\ UNCHANGED <<saveFile, logs, gameContext>>

CallParseDiplomacy ==
    /\ ret = NoCall
    /\ ret' = [fn |-> "parseDiplomacy", out |-> parseDiplomacy(diplomacyFile, statsFile)]
    /\ UNCHANGED <<saveFile, logs, gameContext>>

NextLogs ==
    \/ CallBuildPlayerIdMap
    \/ CallParseGameHistory
    \/ \E turnsBack \in TurnsBack : CallAnalyzeTrends(turnsBack)
    \/ \E fullCivsOnly \in BOOLEAN : CallCalculateVictoryProgress(fullCivsOnly)
    \/ CallParseDiplomacy
    \/ Respond

SpecLogs == InitLogs /\ [][NextLogs]_vars

----------------------------------------------------------------------------
(* The specification of the log directory: any of the log files may be     *)
(* missing, rows may be cut short, and the loaders and the tools that read *)
(* the logs are called in any order, one call at a time.                   *)

ALL_FILES == LOG_FILES \cup {"PLAYER_STATS", "PLAYER_SCORES", "DIPLOMACY"}

\* Two complete rows of every file, as lists of cells.
SampleRows ==
    [key \in ALL_FILES |->
        CASE key = "PLAYER_STATS" ->
                 <<cells(statsLine(statsRow(11, "GEORGIA", "mixed"))),
                   cells(statsLine(statsRow(12, "GEORGIA", "mixed")))>>
          [] key = "PLAYER_SCORES" ->
                 <<cells(scoreLine(scoreRow(11, 0, 300))), cells(scoreLine(scoreRow(12, 0, 320)))>>
          [] key = "DIPLOMACY" ->
                 <<<<"5", "0", "State", "", "12:DIPLO_STATE_FRIENDLY", "-3:DIPLO_STATE_WAR">>,
                   <<"5", "0", "Threat and Trust", "", "", "60.16:1:32.00">>>>
          [] key = "DIPLOMACY_MODIFIERS" ->
                 <<<<"5", "0", "1", "MODIFIER_ALLIED_WITH_FRIEND", "Activate", "8", "10", "0", "0",
                     "3">>,
                   <<"6", "1", "0", "MODIFIER_DENOUNCED", "Update", "-6.5", "12", "0", "1", "4",
                     "note">>>>
          [] key = "MILITARY" ->
                 <<<<"5", "0", "120", "40", "15", "2:5", "3", "TECH_MINING", "4.5">>,
                   <<"6", "1", "300", "80", "25", "1:1", "1", "", "12">>>>
          [] key = "COMBAT" ->
                 <<<<"5", "0", "1", "10", "11", "UNIT_WARRIOR", "UNIT_SLINGER", "melee", "ranged",
                     "20", "15", "0", "30", "10">>,
                   <<"6", "1", "0", "12", "13", "", "UNIT_WARRIOR", "melee", "melee", "28", "20",
                     "2", "25", "40">>>>
          [] key = "CITY_PRODUCTION" ->
                 <<<<"5", "LOC_CITY_NAME_TBILISI", "7.5", "UNIT_SETTLER", "10", "80", "2">>,
                   <<"6", "LOC_CITY_NAME_SYDNEY", "0", "BUILDING_MONUMENT", "0", "60", "">>>>
          [] key = "CITY_BUILD" ->
                 <<<<"1", "0", "LOC_CITY_NAME_TBILISI", "2.5", "-1">>,
                   <<"4", "1", "LOC_CITY_NAME_ROME", "-0.75", "3">>>>
          [] key = "TECH" ->
                 <<<<"5", "0", "Tech", "TECH_POTTERY", "1", "Researching", "3">>,
                   <<"6", "1", "Tech", "TECH_MINING", "1", "Done", "0">>>>
          [] key = "WORLD_CONGRESS" ->
                 <<<<"30", "VOTES", "RESOLUTION_LUXURY", "1", "4">>,
                   <<"30", "RESOLUTION DECIDED", "RESOLUTION_LUXURY", "2", "9">>>>
          [] key = "GREAT_PEOPLE" ->
                 <<<<"5", "Granted to Player", "GREAT_PERSON_INDIVIDUAL_HOMER",
                     "GREAT_PERSON_CLASS_WRITER", "ERA_CLASSICAL", "60", "1">>,
                   <<"6", "Added to Present Timeline", "GREAT_PERSON_INDIVIDUAL_EUCLID",
                     "GREAT_PERSON_CLASS_SCIENTIST", "ERA_CLASSICAL", "90", "-1">>>>]

\* The header line of every file.
Header(key) ==
    CASE key = "PLAYER_STATS" -> STATS_HEADER
      [] key = "PLAYER_SCORES" -> SCORES_HEADER
      [] key = "DIPLOMACY" -> DIPLOMACY_HEADER
      [] OTHER -> "Game Turn, " \o key

\* A file written from rows, and a file that is missing.
Written(rows) == [present |-> TRUE, rows |-> rows]
Missing == [present |-> FALSE, rows |-> << >>]

\* The text of the file of key.
textOf(key, file) ==
    IF ~file.present THEN NoFile
    ELSE csvFile(Header(key), [k \in 1..Len(file.rows) |-> joinWith(file.rows[k], ", ")])

\* The files of a directory: rowsOf gives every file, written or missing.
dirCase(rowsOf) ==
    [stats     |-> textOf("PLAYER_STATS", rowsOf["PLAYER_STATS"]),
     scores    |-> textOf("PLAYER_SCORES", rowsOf["PLAYER_SCORES"]),
     diplomacy |-> textOf("DIPLOMACY", rowsOf["DIPLOMACY"]),
     dir       |-> [key \in LOG_FILES |-> textOf(key, rowsOf[key])]]

NoRows == [key \in ALL_FILES |-> Missing]

\* The sets of files on disk: every subset of the files of logDir and every
\* subset of the other three, each with all or none of the remaining files.
HISTORY_FILES == ALL_FILES \ LOG_FILES

Subsets ==
    {some \cup rest : some \in SUBSET LOG_FILES, rest \in {{}, HISTORY_FILES}}
        \cup {some \cup rest : some \in SUBSET HISTORY_FILES, rest \in {{}, LOG_FILES}}

\* Each file on disk with its two rows.
SubsetCases ==
    {dirCase([key \in ALL_FILES |-> IF key \in present THEN Written(SampleRows[key]) ELSE Missing]) :
        present \in Subsets}

\* The files whose rows are cut short, and where the rows are cut: one cell
\* below 20, 9, 10, 9, 14, 7, 5, 7 and 7 cells and, for the modifiers, at 6
\* to 8 cells as well.
COLUMN_FILES == ALL_FILES \ {"DIPLOMACY", "WORLD_CONGRESS"}

Cuts(key) ==
    IF key = "DIPLOMACY_MODIFIERS" THEN {6, 7, 8, 9} ELSE {Len(SampleRows[key][1]) - 1}

\* The rows a file of key is written from: its two complete rows and its
\* second row cut short.
RowPool(key) ==
    {SampleRows[key][1], SampleRows[key][2]}
        \cup {SubSeq(SampleRows[key][2], 1, n) : n \in Cuts(key)}

MaxRows == 2

RowLists(key) == UNION {[1..n -> RowPool(key)] : n \in 1..MaxRows}

ColumnCases ==
    UNION {{dirCase([NoRows EXCEPT ![key] = Written(rows)]) : rows \in RowLists(key)} :
              key \in COLUMN_FILES}

\* Rows of AI_Military.csv with the explorers "current:desired" in column 5,
\* between ordinary cells or between cells that are empty or no numbers.
Explorers == {<<2, 5>>, <<0, 0>>, <<10, 3>>}

militaryCells(explorers, otherCells) ==
    Let(ToString(explorers[1]) \o ":" \o ToString(explorers[2]), LAMBDA cell :
        IF otherCells = "plain"
        THEN <<"5", "1", "120", "40", "15", cell, "3", "TECH_MINING", "4.5">>
        ELSE <<"x", "9", "", "-4", "n/a", cell, "", "", "high", "7:7">>)

ExplorerRows == Explorers \X {"plain", "odd"}

ExplorerRowLists == UNION {[1..n -> ExplorerRows] : n \in 1..MaxRows}

militaryRows(rowList) ==
    [k \in 1..Len(rowList) |-> militaryCells(rowList[k][1], rowList[k][2])]

ExplorerCases ==
    {dirCase([NoRows EXCEPT !["MILITARY"] = Written(militaryRows(rowList))]) :
        rowList \in ExplorerRowLists}

DirCases == SubsetCases \cup ColumnCases \cup ExplorerCases

InitDir ==
    /\ saveFile = LogsSave
    /\ \E c \in DirCases :
          /\ statsFile = c.stats
          /\ scoresFile = c.scores
          /\ diplomacyFile = c.diplomacy
          /\ logDir = c.dir
    /\ gameContext = {}
    /\ ret = NoCall

\* The loaders, and the file each of them reads.
LOADERS ==
    [parsePlayerStatsCSV      |-> "PLAYER_STATS",
     parsePlayerScoresCSV     |-> "PLAYER_SCORES",
     buildPlayerIdMap         |-> "PLAYER_STATS",
     parseGameHistory         |-> "PLAYER_STATS",
     parseDiplomacy           |-> "DIPLOMACY",
     parseDiplomacyModifiers  |-> "DIPLOMACY_MODIFIERS",
     parseMilitaryIntel       |-> "MILITARY",
     parseCombatLog           |-> "COMBAT",
     parseCityProduction      |-> "CITY_PRODUCTION",
     parseCityFoundingStats   |-> "CITY_BUILD",
     parseTechStatus          |-> "TECH",
     parseWorldCongress       |-> "WORLD_CONGRESS",
     parseGreatPeople         |-> "GREAT_PEOPLE"]

\* The call of a loader on the files of the directory.
load(loader, stats, scores, diplomacy, dir) ==
    CASE loader = "parsePlayerStatsCSV" -> Value(parsePlayerStatsCSV(stats))
      [] loader = "parsePlayerScoresCSV" -> Value(parsePlayerScoresCSV(scores))
      [] loader = "buildPlayerIdMap" -> Value(buildPlayerIdMap(stats))
      [] loader = "parseGameHistory" -> parseGameHistory(stats, scores)
      [] loader = "parseDiplomacy" -> Value(parseDiplomacy(diplomacy, stats))
      [] loader = "parseDiplomacyModifiers" -> parseDiplomacyModifiers(dir.DIPLOMACY_MODIFIERS, stats)
      [] loader = "parseMilitaryIntel" -> parseMilitaryIntel(dir.MILITARY, stats)
      [] loader = "parseCombatLog" -> parseCombatLog(dir.COMBAT, stats)
      [] loader = "parseCityProduction" -> parseCityProduction(dir.CITY_PRODUCTION)
      [] loader = "parseCityFoundingStats" -> parseCityFoundingStats(dir.CITY_BUILD)
      [] loader = "parseTechStatus" -> parseTechStatus(dir.TECH, stats)
      [] loader = "parseWorldCongress" -> parseWorldCongress(dir.WORLD_CONGRESS, stats)
      [] loader = "parseGreatPeople" -> parseGreatPeople(dir.GREAT_PEOPLE, stats)

CallLoader(loader) ==
    /\ ret = NoCall
    /\ ret' = [fn |-> "load", loader |-> loader,
               out |-> load(loader, statsFile, scoresFile, diplomacyFile, logDir)]
    /\ UNCHANGED <<saveFile, logs, gameContext>>

CallLogTool(name) ==
    /\ ret = NoCall
    /\ ret' = [fn |-> "tool", name |-> name,
               out |-> callLogTool(name, statsFile, scoresFile, diplomacyFile, logDir)]
    /\ UNCHANGED <<saveFile, logs, gameContext>>

NextDir ==
    \/ \E loader \in DOMAIN LOADERS : CallLoader(loader)
    \/ \E name \in LOG_TOOLS : CallLogTool(name)
    \/ Respond

SpecDir == InitDir /\ [][NextDir]_vars

----------------------------------------------------------------------------
(* The specification of the intelligence reports: statistics, diplomacy    *)
(* and the AI logs of one game are on disk, and the functions that combine *)
(* them are called in any order, one call at a time.  Every case keeps the *)
(* rows its files were written from.                                       *)

\* A row of AI_Military.csv: the turn, the player, its regional strength and
\* its combat desire in tenths.
militaryRow(turn, player, strength, desire) ==
    [turn |-> turn, player |-> player, strength |-> strength, desire |-> desire]

tenthsText(n) == ToString(n \div 10) \o "." \o ToString(n % 10)

militaryLine(row) ==
    <<ToString(row.turn), ToString(row.player), ToString(row.strength), "40", "15", "2:5",
      "3", "TECH_MINING", tenthsText(row.desire)>>

\* Rows above, at and below the two bars of the threat list, of the latest
\* turn and of an earlier one, of the first player and of the others.
MilitaryRows ==
    {militaryRow(6, 1, 800, 120), militaryRow(6, 1, 800, 100), militaryRow(6, 1, 100, 105),
     militaryRow(6, 2, 500, 75), militaryRow(6, 2, 501, 55), militaryRow(6, 2, 900, 50),
     militaryRow(6, 0, 900, 120), militaryRow(5, 2, 900, 120)}

MaxMilitaryRows == 2

MilitaryRowLists == UNION {[1..n -> MilitaryRows] : n \in 0..MaxMilitaryRows}

\* Rows of AI_Diplomacy.csv of player 0 on players 1 and 2 over four turns,
\* and a row of player 1.
OverviewDiplomacyRows ==
    {diplomacyRow(5, 0, "State",
                  <<stateCell(12, "FRIENDLY"), stateCell(-3, "WAR"), stateCell(4, "ALLIED")>>),
     diplomacyRow(6, 0, "State",
                  <<Null, stateCell(-9, "DENOUNCED"), stateCell(5, "FRIENDLY")>>),
     diplomacyRow(7, 0, "State",
                  <<Null, stateCell(-2, "UNFRIENDLY"), stateCell(4, "DECLARED_FRIEND")>>),
     diplomacyRow(8, 0, "State",
                  <<Null, stateCell(9, "FRIENDLY"), stateCell(1, "NEUTRAL")>>),
     diplomacyRow(5, 1, "State",
                  <<stateCell(7, "UNFRIENDLY"), stateCell(0, "NEUTRAL"), stateCell(6, "ALLIED")>>)}

MaxOverviewLines == 2

OverviewRowLists == UNION {[1..n -> OverviewDiplomacyRows] : n \in 0..MaxOverviewLines}

\* The civilizations of the game in the order of their player indices.
OverviewRosters == {<<"GEORGIA", "ROME", "EGYPT">>, <<"OTTOMAN", "ROME", "EGYPT">>}

overviewCase(roster, military, rowList) ==
    [stats        |-> csvFile(STATS_HEADER,
                              [k \in 1..Len(roster) |->
                                  statsLine(minorRow(12, roster[k], Civs[k]))]),
     scores       |-> NoFile,
     diplomacy    |-> IF rowList = << >> THEN NoFile
                      ELSE csvFile(DIPLOMACY_HEADER, directedLines(rowList)),
     dir          |-> [NoLogs EXCEPT !["MILITARY"] =
                          IF military = << >> THEN NoFile
                          ELSE textOf("MILITARY",
                                      Written([k \in 1..Len(military) |-> militaryLine(military[k])]))],
     roster       |-> roster,
     military     |-> military,
     relationRows |-> rowList]

\* Every list of military rows with one list of diplomacy rows, and every list
\* of diplomacy rows with one list of military rows.
OverviewCases ==
    {overviewCase(roster, military,
                  <<diplomacyRow(6, 0, "State",
                                 <<Null, stateCell(-9, "DENOUNCED"), stateCell(5, "FRIENDLY")>>)>>) :
        roster \in OverviewRosters, military \in MilitaryRowLists}
    \cup {overviewCase(roster, <<militaryRow(6, 1, 800, 120)>>, rowList) :
             roster \in OverviewRosters, rowList \in OverviewRowLists}

\* Rows of AI_CityBuild.csv: founding rows of Tbilisi for player 0 at two
\* turns, build decisions of the same city with no food or no production
\* advantage, the same city for another player, another city, a row of four
\* cells and a row whose player is no number.
FoundingRows ==
    {<<"1", "0", "LOC_CITY_NAME_TBILISI", "2.5", "-1">>,
     <<"3", "0", "LOC_CITY_NAME_TBILISI", "4", "0">>,
     <<"2", "0", "LOC_CITY_NAME_TBILISI", "UNIT_SETTLER", "10">>,
     <<"2", "0", "LOC_CITY_NAME_TBILISI", "1.5", "">>,
     <<"4", "1", "LOC_CITY_NAME_TBILISI", "-0.75", "3">>,
     <<"5", "0", "LOC_CITY_NAME_KUTAISI", "0", ".5">>,
     <<"1", "0", "LOC_CITY_NAME_TBILISI", "7">>,
     <<"6", "x", "LOC_CITY_NAME_TBILISI", "+1", "2">>}

MaxFoundingRows == 3

FoundingRowLists == UNION {[1..n -> FoundingRows] : n \in 0..MaxFoundingRows}

\* A directory that holds one log file written from rows.
logFileCase(key, rows) ==
    [stats     |-> NoFile,
     scores    |-> NoFile,
     diplomacy |-> NoFile,
     dir       |-> [NoLogs EXCEPT ![key] = textOf(key, Written(rows))],
     key       |-> key,
     rows      |-> rows]

FoundingCases == {logFileCase("CITY_BUILD", rows) : rows \in FoundingRowLists}

\* Rows of World_Congress.csv: the votes of players 1 and 0 on a resolution
\* at turn 30, the row of each with the option voted for, the outcome, and a
\* vote of player 1 on the same resolution at turn 31.
CongressRows ==
    {<<"30", "VOTES", "RESOLUTION_LUXURY", "1", "4">>,
     <<"30", "OPTIONS", "RESOLUTION_LUXURY", "1", "2", "7">>,
     <<"30", "VOTES", "RESOLUTION_LUXURY", "0", "3">>,
     <<"30", "OPTIONS", "RESOLUTION_LUXURY", "0", "1", "5">>,
     <<"30", "RESOLUTION DECIDED", "RESOLUTION_LUXURY", "2", "9">>,
     <<"31", "VOTES", "RESOLUTION_LUXURY", "1", "6">>}

MaxCongressRows == 3

CongressRowLists == UNION {[1..n -> CongressRows] : n \in 0..MaxCongressRows}

CongressCases == {logFileCase("WORLD_CONGRESS", rows) : rows \in CongressRowLists}

IntelCases == OverviewCases \cup FoundingCases \cup CongressCases

InitIntel ==
    /\ saveFile = LogsSave
    /\ \E c \in IntelCases :
          /\ statsFile = c.stats
          /\ scoresFile = c.scores
          /\ diplomacyFile = c.diplomacy
          /\ logDir = c.dir
    /\ gameContext = {}
    /\ ret = NoCall

\* The civilization a caller may name as their own.
PlayerCivs == {"", "Rome"}

\* generateStrategicOverview on the statistics the tool passes to it.
CallGenerateStrategicOverview(playerCiv) ==
    /\ ret = NoCall
    /\ getLatestTurnStatsFullCivsOnly(statsFile, scoresFile) # Null
    /\ ret' = [fn |-> "generateStrategicOverview", playerCiv |-> playerCiv,
               out |-> generateStrategicOverview(
                           getLatestTurnStatsFullCivsOnly(statsFile, scoresFile).data,
                           playerCiv, diplomacyFile, logDir, statsFile)]
    /\ UNCHANGED <<saveFile, logs, gameContext>>

CallParseCityFoundingStats ==
    /\ ret = NoCall
    /\ ret' = [fn |-> "parseCityFoundingStats", playerCiv |-> "",
               out |-> parseCityFoundingStats(logDir.CITY_BUILD)]
    /\ UNCHANGED <<saveFile, logs, gameContext>>

CallParseWorldCongress ==
    /\ ret = NoCall
    /\ ret' = [fn |-> "parseWorldCongress", playerCiv |-> "",
               out |-> parseWorldCongress(logDir.WORLD_CONGRESS, statsFile)]
    /\ UNCHANGED <<saveFile, logs, gameContext>>

NextIntel ==
    \/ \E playerCiv \in PlayerCivs : CallGenerateStrategicOverview(playerCiv)
    \/ CallParseCityFoundingStats
    \/ CallParseWorldCongress
    \/ Respond

SpecIntel == InitIntel /\ [][NextIntel]_vars

----------------------------------------------------------------------------
(* Properties of the loaders.                                              *)

\* The files on disk are those of the case c.
onDisk(c) == c.stats = statsFile /\ c.scores = scoresFile /\ c.diplomacy = diplomacyFile

civsOf(rows) == {rows[k].civ : k \in 1..Len(rows)}
firstRow(rows, civ) == SetMin({k \in 1..Len(rows) : rows[k].civ = civ})

\* The number of distinct civilizations of the rows before the first row of civ.
playerIndex(rows, civ) ==
    Cardinality({rows[j].civ : j \in 1..(firstRow(rows, civ) - 1)})

rowsOfTurn(rows, turn) == SelectSeq(rows, LAMBDA r : r.turn = turn)

\* The score of the scores row of this turn and player index, 0 without one.
scoreOfIndex(scores, turn, playerId) ==
    Let({k \in 1..Len(scores) : scores[k].turn = turn /\ scores[k].playerId = playerId},
        LAMBDA found : IF found = {} THEN 0 ELSE scores[CHOOSE k \in found : TRUE].score)

\* The CivStatistics stat carries the turn, civilization and yields of row.
carries(stat, row) ==
    /\ stat.turn = row.turn
    /\ stat.rawCivName = row.civ
    /\ stat.sciencePerTurn = row.science
    /\ stat.culturePerTurn = row.culture
    /\ stat.goldPerTurn = row.gold
    /\ stat.faithPerTurn = row.faith

\* The history has, for every turn of the rows, one TurnData with one
\* CivStatistics per row of the turn, in the order of the rows, whose score is
\* Score(row, place of the row in its turn).
historyOf(history, c, Score(_, _)) ==
    /\ history.kind = "value"
    /\ {history.data.turns[t].turn : t \in 1..Len(history.data.turns)}
          = {c.rows[k].turn : k \in 1..Len(c.rows)}
    /\ \A t \in 1..Len(history.data.turns) :
          Let(rowsOfTurn(c.rows, history.data.turns[t].turn), LAMBDA rows :
              /\ Len(history.data.turns[t].civStats) = Len(rows)
              /\ \A k \in 1..Len(rows) :
                    /\ carries(history.data.turns[t].civStats[k], rows[k])
                    /\ history.data.turns[t].civStats[k].score = Score(rows[k], k))

\* C7: parseGameHistory builds one CivStatistics for every accepted row of
\* Player_Stats.csv, with the row's turn, civilization and yields and with the
\* score of the Game_PlayerScores row of the same turn and of the
\* civilization's player index, 0 when there is no such row.
C7_ScoreOfPlayerIndex ==
    \A c \in LogCases :
        ret.fn = "parseGameHistory" /\ onDisk(c) /\ c.rows # << >> =>
            historyOf(ret.out, c,
                      LAMBDA row, k : scoreOfIndex(c.scoreRows, row.turn,
                                                   playerIndex(c.rows, row.civ)))

\* The index the id map resolves for a civilization name, NaN without one.
resolvedIndex(playerMap, civName) ==
    Let({playerId \in DOMAIN playerMap : playerMap[playerId] = civName}, LAMBDA ids :
        IF ids = {} THEN NaN ELSE CHOOSE playerId \in ids : TRUE)

\* C21: the index under which parseGameHistory looks a civilization's score
\* up (the place of its CivStatistics in the civStats of its turn, counted
\* from 0) is the index buildPlayerIdMap resolves for that civilization from
\* the same Player_Stats.csv, in every turn of every file.
C21_OneJoinKey ==
    ret.fn = "parseGameHistory" /\ ret.out.kind = "value" =>
        \A t \in 1..Len(ret.out.data.turns) :
            \A k \in 1..Len(ret.out.data.turns[t].civStats) :
                resolvedIndex(buildPlayerIdMap(statsFile),
                              ret.out.data.turns[t].civStats[k].rawCivName) = k - 1

turnsOf(rows) == {rows[k].turn : k \in 1..Len(rows)}

\* Every returned trend has the smallest turn of the rows that is >= floor as
\* its startTurn and the latest turn of the rows as its endTurn.
endpoints(trends, rows, floor) ==
    \A k \in 1..Len(trends) :
        /\ trends[k].startTurn = SetMin({t \in turnsOf(rows) : t >= floor})
        /\ trends[k].endTurn = SetMax(turnsOf(rows))

\* C8 as stated: the window of analyzeTrends(N) starts at the smallest turn
\* present that is >= latestTurn - N and ends at latestTurn, and every
\* returned trend carries these as startTurn and endTurn.
C8_WindowFromLatestMinusN ==
    \A c \in LogCases :
        ret.fn = "analyzeTrends" /\ onDisk(c) /\ ret.out # Null =>
            endpoints(ret.out.data, c.rows, SetMax(turnsOf(c.rows)) - ret.turnsBack)

\* C8, amended: the window of analyzeTrends(N) starts at the smallest turn
\* present that is >= max(1, latestTurn - N) and ends at latestTurn, and every
\* returned trend carries these as startTurn and endTurn.
C8_WindowFromTurnOne ==
    \A c \in LogCases :
        ret.fn = "analyzeTrends" /\ onDisk(c) /\ ret.out # Null =>
            endpoints(ret.out.data, c.rows,
                      Max(1, SetMax(turnsOf(c.rows)) - ret.turnsBack))

\* Turns 1, 5, 9 and 15 with a lookback of 10: the trends run from 5 to 15.
C8_Witness ==
    /\ ret.fn = "analyzeTrends"
    /\ ret.turnsBack = 10
    /\ \E c \in LogCases : onDisk(c) /\ turnsOf(c.rows) = {1, 5, 9, 15}
    /\ ret.out # Null
    /\ Len(ret.out.data) > 0
    /\ \A k \in 1..Len(ret.out.data) :
          ret.out.data[k].startTurn = 5 /\ ret.out.data[k].endTurn = 15

TREND_METRICS == {"score", "science", "culture", "gold", "military", "territory"}

\* n is a nearest integer of num / den, den > 0.
nearest(n, num, den) == 2 * den * n - 2 * num \in (0 - den)..den

\* C23: in every trend record and for each of its six metrics, change is
\* end - start, percentChange is 0 when start <= 0 and otherwise the nearest
\* integer of 100 * (end - start) / start: a finite number, never the result
\* of a division by zero.
C23_PercentChange ==
    ret.fn = "analyzeTrends" /\ ret.out # Null =>
        \A k \in 1..Len(ret.out.data) : \A metric \in TREND_METRICS :
            Let(ret.out.data[k][metric], LAMBDA m :
                /\ m.change = m.end - m.start
                /\ m.start <= 0 => m.percentChange = 0
                /\ m.start > 0 => nearest(m.percentChange, 100 * (m.end - m.start), m.start))

\* A civilization whose gold yield rose from -4 to 6 has change 10 and
\* percentChange 0 for it, next to a metric whose percentage had to be rounded.
C23_Witness ==
    /\ ret.fn = "analyzeTrends"
    /\ ret.out # Null
    /\ \E k \in 1..Len(ret.out.data) :
          /\ ret.out.data[k].gold.start < 0
          /\ ret.out.data[k].gold.change = 10
          /\ ret.out.data[k].gold.percentChange = 0
          /\ \E metric \in TREND_METRICS :
                Let(ret.out.data[k][metric], LAMBDA m :
                    /\ m.start > 0
                    /\ (100 * (m.end - m.start)) % m.start # 0
                    /\ m.percentChange = (200 * (m.end - m.start) + m.start) \div (2 * m.start))

\* The rows of turn t that belong to major civilizations (every name of the
\* files that is no city-state and not the Free Cities), in file order.
majorRows(rows, t) == SelectSeq(rows, LAMBDA r : r.turn = t /\ r.civ \notin Minors)

\* The highest turn with more than one major civilization, or the latest
\* turn when there is none.
latestCompleteTurn(rows) ==
    Let({t \in turnsOf(rows) : Len(majorRows(rows, t)) > 1}, LAMBDA complete :
        IF complete = {} THEN SetMax(turnsOf(rows)) ELSE SetMax(complete))

\* C28: getLatestTurnStatsFullCivsOnly returns the statistics of the major
\* civilizations of the highest-numbered turn that has more than one major
\* civilization, skipping a newer turn that holds only one; when no turn has
\* more than one it returns the major civilizations of the latest turn; all
\* returned records belong to a single turn.
C28_LatestCompleteTurn ==
    \A c \in LogCases :
        (/\ ret.fn = "calculateVictoryProgress" /\ ret.fullCivsOnly
         /\ onDisk(c) /\ c.rows # << >>) =>
            /\ ret.stats # Null
            /\ Let(majorRows(c.rows, latestCompleteTurn(c.rows)), LAMBDA expected :
                   /\ Len(ret.stats.data) = Len(expected)
                   /\ \A k \in 1..Len(expected) :
                         /\ ret.stats.data[k].rawCivName = expected[k].civ
                         /\ ret.stats.data[k].turn = expected[k].turn
                         /\ ret.stats.data[k].population = expected[k].population)

\* The positions Position gives the entries of progress are a permutation of
\* 1..n in descending order of Metric over majors, equal metrics in the order
\* of majors.
rankedBy(majors, progress, Metric(_), Position(_)) ==
    /\ {Position(progress[k]) : k \in 1..Len(progress)} = 1..Len(majors)
    /\ \A i, j \in 1..Len(majors) :
          i < j => IF Metric(majors[i]) >= Metric(majors[j])
                   THEN Position(progress[i]) < Position(progress[j])
                   ELSE Position(progress[j]) < Position(progress[i])

distinctNames(majors) ==
    \A i, j \in 1..Len(majors) : i # j => majors[i].civilization # majors[j].civilization

\* C9: for n major civilizations with distinct names, calculateVictoryProgress
\* gives in every category (techs researched, culture per turn, land and naval
\* units, score) positions that are a permutation of 1..n in descending order
\* of the metric, civilizations of equal metric keeping the order of the input.
C9_RankingStableUnderTies ==
    ret.fn = "calculateVictoryProgress" /\ ret.stats # Null =>
        Let(SelectSeq(ret.stats.data, LAMBDA s : ~s.isCityState), LAMBDA majors :
            distinctNames(majors) =>
                /\ Len(ret.out) = Len(majors)
                /\ \A k \in 1..Len(majors) : ret.out[k].civilization = majors[k].civilization
                /\ rankedBy(majors, ret.out, LAMBDA s : s.techsResearched,
                            LAMBDA p : p.science.position)
                /\ rankedBy(majors, ret.out, LAMBDA s : s.culturePerTurn,
                            LAMBDA p : p.culture.position)
                /\ rankedBy(majors, ret.out, LAMBDA s : s.landUnits + s.navalUnits,
                            LAMBDA p : p.domination.position)
                /\ rankedBy(majors, ret.out, LAMBDA s : s.score,
                            LAMBDA p : p.score.position))

\* Three civilizations, the first two of the input with the same tech count
\* and ahead of the third: they are first and second in the order of the
\* input, while the culture ranking is another order.
C9_Witness ==
    /\ ret.fn = "calculateVictoryProgress"
    /\ ret.stats # Null
    /\ Len(ret.out) = 3
    /\ ret.stats.data[1].techsResearched = ret.stats.data[2].techsResearched
    /\ ret.stats.data[3].techsResearched < ret.stats.data[1].techsResearched
    /\ <<ret.out[1].science.position, ret.out[2].science.position,
         ret.out[3].science.position>> = <<1, 2, 3>>
    /\ <<ret.out[1].culture.position, ret.out[2].culture.position,
         ret.out[3].culture.position>> = <<1, 3, 2>>

\* Is the raw name that of the Free Cities or of an entity the display-name
\* table lists under city-states?
listedMinor(rawName) == rawName = "FREE_CITIES" \/ rawName \in DISPLAY_CITY_STATES

minorNames == {getCivDisplayInfo(rawName).civ : rawName \in DISPLAY_CITY_STATES \cup {"FREE_CITIES"}}

\* The turn the window of analyzeTrends starts at and the turn it ends at.
windowEnd(rows) == SetMax(turnsOf(rows))
windowStart(rows, turnsBack) ==
    SetMin({t \in turnsOf(rows) : t >= Max(1, windowEnd(rows) - turnsBack)})

\* The civilizations (city-states and Free Cities apart) with a row at turn.
civsAt(rows, turn) ==
    {rows[k].civ : k \in {j \in 1..Len(rows) : rows[j].turn = turn /\ ~listedMinor(rows[j].civ)}}

\* C18: analyzeTrends returns exactly one trend record for every civilization
\* present at both window endpoints and none for a civilization absent at
\* either endpoint; a civilization absent at an endpoint takes no record of
\* another civilization with it.
C18_OneTrendPerCivilization ==
    \A c \in LogCases :
        ret.fn = "analyzeTrends" /\ onDisk(c) /\ ret.out # Null =>
            /\ {ret.out.data[k].civilization : k \in 1..Len(ret.out.data)}
                  = {getCivDisplayInfo(civ).civ :
                        civ \in civsAt(c.rows, windowStart(c.rows, ret.turnsBack))
                                \cap civsAt(c.rows, windowEnd(c.rows))}
            /\ \A i, j \in 1..Len(ret.out.data) :
                  i # j => ret.out.data[i].civilization # ret.out.data[j].civilization

\* C16: city-states are excluded from the victory-progress ranking.  The
\* output of getLatestTurnStatsFullCivsOnly and of calculateVictoryProgress
\* has no entry for the Free Cities or for an entity the display-name table
\* lists under city-states, and the positions are those computed without
\* these entities.
C16_CityStatesNotRanked ==
    ret.fn = "calculateVictoryProgress" /\ ret.stats # Null =>
        /\ ret.fullCivsOnly =>
               \A k \in 1..Len(ret.stats.data) : ~listedMinor(ret.stats.data[k].rawCivName)
        /\ \A k \in 1..Len(ret.out) : ret.out[k].civilization \notin minorNames
        /\ ret.out = calculateVictoryProgress(
                         [kind |-> "value",
                          data |-> SelectSeq(ret.stats.data,
                                             LAMBDA s : ~listedMinor(s.rawCivName))])

\* C10: no DiplomaticRelation parseDiplomacy returns has fromPlayerId equal to
\* toPlayerId.
C10_NoSelfRelations ==
    ret.fn = "parseDiplomacy" =>
        \A k \in 1..Len(ret.out) : ret.out[k].fromPlayerId # ret.out[k].toPlayerId

\* The row of player 0 with "12:DIPLO_STATE_FRIENDLY" in column 4 and cells for
\* players 1 and 2 gives the two edges to them and none to player 0.
C10_Witness ==
    /\ ret.fn = "parseDiplomacy"
    /\ diplomacyFile = csvFile(DIPLOMACY_HEADER,
          <<"5, 0, State, , 12:DIPLO_STATE_FRIENDLY, -3:DIPLO_STATE_WAR, 4:DIPLO_STATE_ALLIED">>)
    /\ [k \in 1..Len(ret.out) |->
           <<ret.out[k].fromPlayerId, ret.out[k].toPlayerId, ret.out[k].state, ret.out[k].score>>]
          = <<<<0, 1, "WAR", -3>>, <<0, 2, "ALLIED", 4>>>>

\* The rows the diplomacy file on disk was written from (<< >> when the file
\* is none of the files written from rows).
rowsOnDisk ==
    Let({rowList \in DirectedRowLists : csvFile(DIPLOMACY_HEADER, directedLines(rowList)) = diplomacyFile},
        LAMBDA lists : IF lists = {} THEN << >> ELSE CHOOSE rowList \in lists : TRUE)

\* The cells of the "State" rows, in the order of the file, that name another
\* player than the emitter: the row, the partner and the cell.
stateCells(rowList) ==
    flatten([i \in 1..Len(rowList) |->
        IF rowList[i].action = THREAT_AND_TRUST THEN << >>
        ELSE Let(SelectSeq([c \in 1..Len(rowList[i].cells) |-> c],
                           LAMBDA c : rowList[i].cells[c] # Null /\ c - 1 # rowList[i].from),
                 LAMBDA cols : [k \in 1..Len(cols) |->
                                   [row |-> rowList[i], to |-> cols[k] - 1,
                                    cell |-> rowList[i].cells[cols[k]]]])])

\* C11: the edges parseDiplomacy returns are, one for one and in the order of
\* the file, the cells of the State rows: edge (A->B) has the state and score
\* of the cell for partner B in the row emitted by A, whatever the rows of B
\* say of A.
C11_DirectedEdges ==
    (ret.fn = "parseDiplomacy" /\ rowsOnDisk # << >>) =>
        Let(stateCells(rowsOnDisk), LAMBDA written :
            /\ Len(ret.out) = Len(written)
            /\ \A k \in 1..Len(written) :
                  /\ ret.out[k].fromPlayerId = written[k].row.from
                  /\ ret.out[k].toPlayerId = written[k].to
                  /\ ret.out[k].state = written[k].cell.state
                  /\ ret.out[k].score = written[k].cell.score)

\* Player 0 then player 1 at turn 5: the edge 0->1 is at war with score -3 and
\* the edge 1->0 unfriendly with score 7, both returned.
C11_Witness ==
    /\ ret.fn = "parseDiplomacy"
    /\ Len(rowsOnDisk) = 2
    /\ \E j, k \in 1..Len(ret.out) :
          /\ <<ret.out[j].fromPlayerId, ret.out[j].toPlayerId, ret.out[j].state,
               ret.out[j].score>> = <<0, 1, "WAR", -3>>
          /\ <<ret.out[k].fromPlayerId, ret.out[k].toPlayerId, ret.out[k].state,
               ret.out[k].score>> = <<1, 0, "UNFRIENDLY", 7>>

\* The "Threat and Trust" cells of rowList for the edge of turn, from and to.
threatTrustCells(rowList, turn, from, to) ==
    {rowList[i].cells[to + 1] :
        i \in {j \in 1..Len(rowList) :
                  /\ rowList[j].action = THREAT_AND_TRUST
                  /\ rowList[j].turn = turn
                  /\ rowList[j].from = from
                  /\ to + 1 <= Len(rowList[j].cells)
                  /\ rowList[j].cells[to + 1] # Null}}

\* C17: every edge built from a row of turn T emitted by F for partner P has
\* the threat and trust of the "Threat and Trust" cell of turn T, player F and
\* partner P when there is one, and threat = 0 and trust = 0 when there is
\* none.
C17_BackFillKeyedByTurn ==
    (ret.fn = "parseDiplomacy" /\ rowsOnDisk # << >>) =>
        Let(stateCells(rowsOnDisk), LAMBDA written :
            /\ Len(ret.out) = Len(written)
            /\ \A k \in 1..Len(written) :
                  Let(threatTrustCells(rowsOnDisk, written[k].row.turn, written[k].row.from,
                                       written[k].to),
                      LAMBDA filled :
                          IF filled = {}
                          THEN ret.out[k].threat = ZERO /\ ret.out[k].trust = ZERO
                          ELSE \E cell \in filled : /\ ret.out[k].threat = cell.threat
                                                    /\ ret.out[k].trust = cell.trust))

----------------------------------------------------------------------------
(* Properties of the log directory.                                        *)

\* The text on disk of the file of key.
onDiskText(key) ==
    CASE key = "PLAYER_STATS" -> statsFile
      [] key = "PLAYER_SCORES" -> scoresFile
      [] key = "DIPLOMACY" -> diplomacyFile
      [] OTHER -> logDir[key]

\* The explorer rows AI_Military.csv was written from (<< >> when it is none
\* of the files written from explorer rows).
explorersOnDisk ==
    Let({rowList \in ExplorerRowLists :
            textOf("MILITARY", Written(militaryRows(rowList))) = logDir.MILITARY},
        LAMBDA lists : IF lists = {} THEN << >> ELSE CHOOSE rowList \in lists : TRUE)

\* C12: parseMilitaryIntel reads the cell "c:d" of column 5 as
\* currentExplorers = c and desiredExplorers = d, whatever the other cells of
\* the row hold.
C12_ExplorersDecoded ==
    (ret.fn = "load" /\ ret.loader = "parseMilitaryIntel" /\ explorersOnDisk # << >>) =>
        /\ ret.out.kind = "value"
        /\ Len(ret.out.data) = Len(explorersOnDisk)
        /\ \A k \in 1..Len(explorersOnDisk) :
              /\ ret.out.data[k].currentExplorers = explorersOnDisk[k][1][1]
              /\ ret.out.data[k].desiredExplorers = explorersOnDisk[k][1][2]

\* The cell "2:5" in a row of ordinary cells and the cell "10:3" in a row
\* whose other cells are empty or no numbers: 2 and 5, then 10 and 3.
C12_Witness ==
    /\ ret.fn = "load"
    /\ ret.loader = "parseMilitaryIntel"
    /\ explorersOnDisk = <<<<<<2, 5>>, "plain">>, <<<<10, 3>>, "odd">>>>
    /\ <<ret.out.data[1].currentExplorers, ret.out.data[1].desiredExplorers>> = <<2, 5>>
    /\ <<ret.out.data[2].currentExplorers, ret.out.data[2].desiredExplorers>> = <<10, 3>>
    /\ ret.out.data[2].turn = NaN

\* What a loader returns when it has nothing to read.
emptyResult(loader) ==
    CASE loader = "parseGameHistory" -> Null
      [] loader = "parseWorldCongress" -> Value([votes |-> << >>, results |-> << >>])
      [] OTHER -> Value(<< >>)

\* C13: a loader whose file is missing returns its empty result (no votes and
\* no results for parseWorldCongress, null for parseGameHistory, the empty map
\* for buildPlayerIdMap), and no call of a tool that reads the logs is
\* answered with isError, whichever files are on disk.
C13_AbsentFileIsEmpty ==
    /\ (ret.fn = "load" /\ onDiskText(LOADERS[ret.loader]) = NoFile) =>
           ret.out = emptyResult(ret.loader)
    /\ ret.fn = "tool" => ~ret.out.isError

\* The strategic overview with the statistics on disk and the military,
\* combat, production and diplomacy files missing: the text of the overview.
C13_Witness ==
    /\ ret.fn = "tool"
    /\ ret.name = "get_strategic_overview"
    /\ statsFile # NoFile
    /\ diplomacyFile = NoFile
    /\ logDir = NoLogs
    /\ ret.out = TextResult("# Strategic Overview (Turn 12)")

\* The rows the file of key was written from (<< >> when it is none of the
\* files written from rows cut short).
rowsWritten(key) ==
    Let({rows \in RowLists(key) : textOf(key, Written(rows)) = onDiskText(key)},
        LAMBDA lists : IF lists = {} THEN << >> ELSE CHOOSE rows \in lists : TRUE)

\* The loader called again with text as the file of key.
loadWith(loader, key, text) ==
    load(loader, IF key = "PLAYER_STATS" THEN text ELSE statsFile,
         IF key = "PLAYER_SCORES" THEN text ELSE scoresFile, diplomacyFile,
         IF key \in LOG_FILES THEN [logDir EXCEPT ![key] = text] ELSE logDir)

\* The loaders that return one list of records of the rows of their file.
ROW_LOADERS ==
    {"parsePlayerStatsCSV", "parsePlayerScoresCSV", "parseDiplomacyModifiers",
     "parseMilitaryIntel", "parseCombatLog", "parseCityProduction", "parseCityFoundingStats",
     "parseTechStatus", "parseGreatPeople"}

\* With columns[key] cells asked of a row of the file of key: the load never
\* fails, and it returns what it returns for the file without the rows of
\* fewer cells.
skipsShortRows(columns) ==
    (ret.fn = "load" /\ ret.loader \in ROW_LOADERS /\ rowsWritten(LOADERS[ret.loader]) # << >>) =>
        Let(LOADERS[ret.loader], LAMBDA key :
        Let(SelectSeq(rowsWritten(key), LAMBDA row : Len(row) >= columns[key]), LAMBDA wide :
            /\ ret.out.kind = "value"
            /\ Len(ret.out.data) <= Len(wide)
            /\ ret.out = loadWith(ret.loader, key, textOf(key, Written(wide)))))

\* C14: every record a loader returns comes from a row with at least the
\* documented number of cells (Player_Stats 20, Game_PlayerScores 9,
\* DiplomacyModifiers 10, AI_Military 9, CombatLog 14, City_BuildQueue 7,
\* AI_CityBuild 5, AI_Research 7, Game_GreatPeople 7), and a shorter row
\* neither ends the load nor changes the records of the other rows.
C14_ShortRowsSkipped ==
    skipsShortRows([PLAYER_STATS |-> 20, PLAYER_SCORES |-> 9, DIPLOMACY_MODIFIERS |-> 10,
                    MILITARY |-> 9, COMBAT |-> 14, CITY_PRODUCTION |-> 7, CITY_BUILD |-> 5,
                    TECH |-> 7, GREAT_PEOPLE |-> 7])

\* C14 with the 7 cells parseDiplomacyModifiers asks of a row: the cooldown
\* of column 9 is read when the row has it and is 0 otherwise.
C14_ShortRowsSkippedModifiers7 ==
    skipsShortRows([PLAYER_STATS |-> 20, PLAYER_SCORES |-> 9, DIPLOMACY_MODIFIERS |-> 7,
                    MILITARY |-> 9, COMBAT |-> 14, CITY_PRODUCTION |-> 7, CITY_BUILD |-> 5,
                    TECH |-> 7, GREAT_PEOPLE |-> 7])

\* DiplomacyModifiers.csv with a row of 6 cells, then a row of 7: one record,
\* of the second row, with cooldown 0.
C14_Witness ==
    /\ ret.fn = "load"
    /\ ret.loader = "parseDiplomacyModifiers"
    /\ Len(rowsWritten("DIPLOMACY_MODIFIERS")) = 2
    /\ Len(rowsWritten("DIPLOMACY_MODIFIERS")[1]) = 6
    /\ Len(rowsWritten("DIPLOMACY_MODIFIERS")[2]) = 7
    /\ Len(ret.out.data) = 1
    /\ ret.out.data[1].turn = 6
    /\ ret.out.data[1].cooldownTurns = 0

----------------------------------------------------------------------------
(* Properties of the intelligence reports.                                 *)

\* The files on disk are those of the case c.
intelOnDisk(c) == onDisk(c) /\ logDir = c.dir

\* The rows of the latest turn of AI_Military.csv.
latestRows(c) ==
    SelectSeq(c.military,
              LAMBDA r : \A k \in 1..Len(c.military) : c.military[k].turn <= r.turn)

\* The level of the threat list for a row of AI_Military.csv.
levelOf(row) ==
    IF row.desire > 100 THEN "HIGH"
    ELSE IF row.desire > 50 /\ row.strength > 500 THEN "MEDIUM"
    ELSE "none"

\* The civilization of the roster that a name of the overview stands for.
rawOf(name, roster) ==
    CHOOSE k \in 1..Len(roster) :
        name \in {formatCivName(roster[k]), getCivDisplayInfo(roster[k]).civ}

\* The player's own civilization, as a place of the roster: the one the caller
\* names, the first one when the caller names none.
ownCiv(c, playerCiv) == IF playerCiv = "" THEN 1 ELSE rawOf(playerCiv, c.roster)

\* The threat list as the set of its entries <<civilization, level>>.
listed(threats, roster) ==
    {<<rawOf(threats[k].civilization, roster), threats[k].threatLevel>> : k \in 1..Len(threats)}

\* C24: the threat list holds a civilization as HIGH when its latest-turn
\* combat desire is > 10, as MEDIUM when it is > 5 with a strength > 500, and
\* holds no other entry, whatever the diplomacy rows are; the player's own
\* civilization is never listed.
C24_ThreatsByAggressiveness ==
    \A c \in OverviewCases :
        (ret.fn = "generateStrategicOverview" /\ intelOnDisk(c) /\ ret.out.kind = "value") =>
            listed(ret.out.data.threats, c.roster)
                = {<<r.player + 1, levelOf(r)>> :
                      r \in {latestRows(c)[k] : k \in {j \in 1..Len(latestRows(c)) :
                                /\ levelOf(latestRows(c)[j]) # "none"
                                /\ latestRows(c)[j].player + 1 # ownCiv(c, ret.playerCiv)}}}

\* The name the overview compares with: the civilization the caller names,
\* else the display name of the first major civilization of the statistics.
humanName(c, playerCiv) ==
    IF playerCiv # "" THEN playerCiv ELSE getCivDisplayInfo(c.roster[1]).civ

\* The entries of the military rows, under the names of the log.
militaryEntries(c, playerCiv) ==
    {<<formatCivName(c.roster[r.player + 1]), levelOf(r)>> :
        r \in {latestRows(c)[k] : k \in {j \in 1..Len(latestRows(c)) :
                  /\ levelOf(latestRows(c)[j]) # "none"
                  /\ formatCivName(c.roster[latestRows(c)[j].player + 1])
                        # humanName(c, playerCiv)}}}

\* The hostile cells written by the player, in the order of the file.
cellsOf(c, playerCiv, states) ==
    SelectSeq(stateCells(c.relationRows),
              LAMBDA e : /\ formatCivName(c.roster[e.row.from + 1]) = humanName(c, playerCiv)
                         /\ e.cell.state \in states)

\* The entries of the diplomacy rows: the first hostile cell of every partner
\* without a military entry, DENOUNCED as MEDIUM, UNFRIENDLY as LOW, WAR not.
diplomaticEntries(c, playerCiv) ==
    Let(cellsOf(c, playerCiv, {"DENOUNCED", "UNFRIENDLY", "WAR"}), LAMBDA hostile :
        {<<formatCivName(c.roster[hostile[k].to + 1]),
           IF hostile[k].cell.state = "DENOUNCED" THEN "MEDIUM" ELSE "LOW">> :
            k \in {j \in 1..Len(hostile) :
                      /\ \A i \in 1..(j - 1) : hostile[i].to # hostile[j].to
                      /\ hostile[j].cell.state # "WAR"
                      /\ \A e \in militaryEntries(c, playerCiv) :
                            e[1] # formatCivName(c.roster[hostile[j].to + 1])}})

\* What the threat list holds in every case: the entries of the latest
\* military rows (HIGH for a combat desire > 10, MEDIUM for one > 5 with a
\* strength > 500) and, for every partner without such an entry, one entry for
\* the first hostile relation of the player with it (MEDIUM when DENOUNCED,
\* LOW when UNFRIENDLY, none when WAR); no entry bears the name the overview
\* takes for the player.
ThreatsWithDiplomacy ==
    \A c \in OverviewCases :
        (ret.fn = "generateStrategicOverview" /\ intelOnDisk(c) /\ ret.out.kind = "value") =>
            /\ {<<ret.out.data.threats[k].civilization, ret.out.data.threats[k].threatLevel>> :
                   k \in 1..Len(ret.out.data.threats)}
                  = militaryEntries(c, ret.playerCiv) \cup diplomaticEntries(c, ret.playerCiv)
            /\ \A k \in 1..Len(ret.out.data.threats) :
                  ret.out.data.threats[k].civilization # humanName(c, ret.playerCiv)

\* The friendly cells written by the player's own civilization, in the order
\* of the file.
friendlyCells(c, playerCiv) ==
    SelectSeq(stateCells(c.relationRows),
              LAMBDA e : /\ e.row.from + 1 = ownCiv(c, playerCiv)
                         /\ e.cell.state \in {"ALLIED", "FRIENDLY", "DECLARED_FRIEND"})

\* The opportunity list names every partner of cells once, with the highest
\* score of the partner's cells, and names nobody else.
onePerPartner(opportunities, cellList, roster) ==
    /\ {rawOf(opportunities[k].toCiv, roster) : k \in 1..Len(opportunities)}
          = {cellList[k].to + 1 : k \in 1..Len(cellList)}
    /\ \A j, k \in 1..Len(opportunities) :
          opportunities[j].toCiv = opportunities[k].toCiv => j = k
    /\ \A k \in 1..Len(opportunities) :
          /\ opportunities[k].state \in {"ALLIED", "FRIENDLY", "DECLARED_FRIEND"}
          /\ opportunities[k].score
                = SetMax({cellList[e].cell.score :
                             e \in {x \in 1..Len(cellList) :
                                       cellList[x].to + 1 = rawOf(opportunities[k].toCiv, roster)}})

\* C25: the opportunity list holds one entry per partner civilization: every
\* partner of an ALLIED, FRIENDLY or DECLARED_FRIEND edge from the player's
\* civilization appears exactly once, with the highest score among these
\* edges, and no partner without such an edge appears.
C25_OneOpportunityPerPartner ==
    \A c \in OverviewCases :
        (ret.fn = "generateStrategicOverview" /\ intelOnDisk(c) /\ ret.out.kind = "value") =>
            onePerPartner(ret.out.data.opportunities, friendlyCells(c, ret.playerCiv), c.roster)

\* A cell that starts as a number does: an optional sign, then a digit, or a
\* point and a digit.
startsNumber(cell) ==
    Let(IF cell # "" /\ SubSeq(cell, 1, 1) \in {"-", "+"} THEN SubSeq(cell, 2, Len(cell)) ELSE cell,
        LAMBDA body :
        \/ (body # "" /\ isDigitChar(SubSeq(body, 1, 1)))
        \/ (Len(body) >= 2 /\ SubSeq(body, 1, 1) = "." /\ isDigitChar(SubSeq(body, 2, 2))))

\* A row of AI_CityBuild.csv with both advantages.
foundingRow(row) == Len(row) >= 5 /\ startsNumber(row[4]) /\ startsNumber(row[5])

samePair(a, b) == a.playerId = b.playerId /\ a.city = b.city

\* The founding rows of a list that no earlier founding row of the same
\* player and city precedes, as records, in file order.
firstFoundings(rows) ==
    Let(SelectSeq([k \in 1..Len(rows) |-> k],
                  LAMBDA k : /\ foundingRow(rows[k])
                             /\ \A j \in 1..(k - 1) :
                                    foundingRow(rows[j]) =>
                                        ~samePair(cityFoundingStats(rows[j]),
                                                  cityFoundingStats(rows[k]))),
        LAMBDA firsts : [k \in 1..Len(firsts) |-> cityFoundingStats(rows[firsts[k]])])

\* C27: parseCityFoundingStats returns at most one record per player and
\* city, the record of the first row in file order for that pair whose food
\* advantage and production advantage are both numeric; a row in which either
\* is not numeric is dropped and never becomes or replaces a founding record,
\* and every returned record has both advantages (neither is NaN).
C27_FirstFoundingRow ==
    ret.fn = "parseCityFoundingStats" =>
        /\ ret.out.kind = "value"
        /\ \A i, j \in 1..Len(ret.out.data) :
              i # j => ~samePair(ret.out.data[i], ret.out.data[j])
        /\ \A k \in 1..Len(ret.out.data) :
              ~isNaN(ret.out.data[k].foodAdvantage) /\ ~isNaN(ret.out.data[k].productionAdvantage)
        /\ \A c \in FoundingCases :
              intelOnDisk(c) => ret.out.data = firstFoundings(c.rows)

\* A file in which a build decision, a founding row and a later founding row
\* of one city follow each other: the record is that of the founding row in
\* the middle.
C27_Witness ==
    /\ ret.fn = "parseCityFoundingStats"
    /\ \E c \in FoundingCases :
          /\ intelOnDisk(c)
          /\ Len(c.rows) = 3
          /\ ~foundingRow(c.rows[1]) /\ foundingRow(c.rows[2]) /\ foundingRow(c.rows[3])
          /\ c.rows[1][3] = c.rows[2][3] /\ c.rows[1][2] = c.rows[2][2]
          /\ c.rows[2][1] # c.rows[3][1]
          /\ samePair(cityFoundingStats(c.rows[2]), cityFoundingStats(c.rows[3]))
          /\ ret.out.data = <<cityFoundingStats(c.rows[2])>>

\* The rows of a list with the action named, in file order.
rowsOfAction(rows, action) == SelectSeq(rows, LAMBDA r : r[2] = action)

\* The OPTIONS rows of the turn, player and resolution of a VOTES row.
optionsFor(rows, voteRow) ==
    SelectSeq(rowsOfAction(rows, "OPTIONS"),
              LAMBDA o : o[1] = voteRow[1] /\ o[3] = voteRow[3] /\ o[4] = voteRow[4])

\* C29: after parseWorldCongress has read the whole file, every vote whose
\* turn, player and resolution also have an OPTIONS row carries the option of
\* that row as targetOption, whether the OPTIONS row stands before or after
\* the VOTES row and when several VOTES rows share the key; a vote with no
\* OPTIONS row keeps targetOption 0; OPTIONS rows add and remove no vote and
\* no result.
C29_OptionsBackFilled ==
    \A c \in CongressCases :
        ret.fn = "parseWorldCongress" /\ intelOnDisk(c) =>
            /\ ret.out.kind = "value"
            /\ Len(ret.out.data.votes) = Len(rowsOfAction(c.rows, "VOTES"))
            /\ Len(ret.out.data.results) = Len(rowsOfAction(c.rows, "RESOLUTION DECIDED"))
            /\ \A k \in 1..Len(ret.out.data.votes) :
                  Let(optionsFor(c.rows, rowsOfAction(c.rows, "VOTES")[k]), LAMBDA options :
                      /\ numberText(ret.out.data.votes[k].turn) = rowsOfAction(c.rows, "VOTES")[k][1]
                      /\ numberText(ret.out.data.votes[k].votes) = rowsOfAction(c.rows, "VOTES")[k][5]
                      /\ numberText(ret.out.data.votes[k].targetOption)
                            = IF options = << >> THEN "0" ELSE options[1][6])

----------------------------------------------------------------------------
(* Properties of the notes store.                                          *)

STATELESS_TOOLS == {"read_game_state", "set_game_context", "no_such_tool"}

\* C19: the notes store is the only state shared across requests.  The
\* stored game context changes only in a successful set_game_context call;
\* every other call, a failed or unknown one included, leaves it unchanged;
\* and the response of every tool other than get_game_context and
\* get_strategy_brief is the one a server that has seen no call gives for the
\* same file and arguments.
C19_OnlyNotesShared ==
    /\ [][gameContext' # gameContext =>
              ret'.fn = "set_game_context" /\ ~ret'.out.isError]_vars
    /\ [](ret.fn \in STATELESS_TOOLS =>
              ret.out = handleRequest(ret.fn, ret.args, saveFile, {}).out)

\* A set_game_context call without a string fails while a context is stored,
\* and the context is still there.
C19_Witness ==
    /\ ret.fn = "set_game_context"
    /\ ret.args.context.t = "undefined"
    /\ ret.out.isError
    /\ gameContext = {<<"current", "Rome is hostile">>}

\* C20: the stored game context is retrieved as stored.  After a successful
\* set_game_context(c), for any string c, the store holds c until the next
\* set_game_context whatever is called in between, and get_game_context
\* returns exactly what the store holds; before any set_game_context it
\* returns the notice that no context has been set.
C20_ContextRetrievedAsStored ==
    /\ [][ret'.fn = "set_game_context" /\ ret = NoCall /\ ~ret'.out.isError =>
              gameContext' = {<<"current", ret'.args.context.v>>}]_vars
    /\ [][ret'.fn # "set_game_context" => gameContext' = gameContext]_vars
    /\ [](ret.fn = "get_game_context" =>
              ret.out = TextResult(IF gameContext = {} THEN NO_CONTEXT
                                   ELSE (CHOOSE e \in gameContext : TRUE)[2]))

====
